---- MODULE Spec2Model ----
(***************************************************************************)
(* Status-driven send pipeline of the newsletter agent.                    *)
(*                                                                         *)
(* The model follows api/newsletter-status.ts: a serverless handler that   *)
(* receives a status-change webhook, validates it, checks the document's   *)
(* persisted status in the store, fetches the content, resolves the        *)
(* recipients and sends one transactional email per recipient.  A handler  *)
(* invocation is a process whose position (pc) moves at the network await  *)
(* points of the code; everything between two awaits is one step.          *)
(***************************************************************************)
EXTENDS Integers, Sequences, FiniteSets, TLC

(***************************************************************************)
(* Values                                                                  *)
(***************************************************************************)
\* undefined / null of the source
NoVal == "<none>"

\* JavaScript truthiness of an optional string
Truthy(v) == v \notin {NoVal, ""}

Range(s) == {s[i] : i \in 1..Len(s)}

\* the handler instances of the deployment
Procs == {"h1", "h2"}

\* number of invocations the platform runs at the same time
MaxConcurrent == 1

\* the newsletter page of the store, and an identifier the store does not know
PageId == "p1"
UnknownPageId == "zz"

StatusValues == {"Draft", "Test Sent", "Ready", "Sent"}

TEST_EMAIL == "your-email@example.com"
TEST_EMAIL_NAME == "Test"

TestRecipient == [email |-> TEST_EMAIL, firstName |-> TEST_EMAIL_NAME]

\* the contacts collection of the store: E-Mail, Name (words), Audience tags
ContactsDB ==
    << [email |-> "ann@x.io", name |-> <<"Ann", "Lee">>, tags |-> {"Customers"}],
       [email |-> "bob@x.io", name |-> <<>>,             tags |-> {"Customers", "Internal"}],
       [email |-> NoVal,      name |-> <<"Cy">>,         tags |-> {"Internal"}],
       [email |-> "dee@x.io", name |-> <<"Dee", "Fox">>, tags |-> {"Customers"}] >>

\* values of the Audience property of the newsletter page
AudienceProps ==
    { [type |-> "multi_select", names |-> <<>>],
      [type |-> "multi_select", names |-> <<"Customers">>],
      [type |-> "multi_select", names |-> <<"Internal", "Partners">>],
      [type |-> "select",       names |-> <<"Partners">>],
      [type |-> "select",       names |-> <<>>],
      [type |-> "none",         names |-> <<>>] }

\* process.env at cold start
EnvValues ==
    [ WEBHOOK_SECRET : {NoVal, "s3cret"},
      LOOPS_API_KEY : {NoVal, "key"},
      LOOPS_TRANSACTIONAL_ID : {NoVal, "tmpl"} ]

(***************************************************************************)
(* Requests                                                                *)
(***************************************************************************)
EmptyBody ==
    [ pageId |-> NoVal, data_id |-> NoVal, id |-> NoVal, page_id |-> NoVal,
      pageID |-> NoVal, object |-> NoVal,
      status |-> NoVal, data_status |-> NoVal, props_status |-> NoVal ]

IdShapes ==
    { EmptyBody,
      [EmptyBody EXCEPT !.pageId = PageId],
      [EmptyBody EXCEPT !.pageId = UnknownPageId],
      [EmptyBody EXCEPT !.pageId = ""],
      [EmptyBody EXCEPT !.data_id = PageId],
      [EmptyBody EXCEPT !.id = PageId, !.object = "page"],
      [EmptyBody EXCEPT !.page_id = PageId],
      [EmptyBody EXCEPT !.pageID = PageId],
      [EmptyBody EXCEPT !.object = "page"],
      [EmptyBody EXCEPT !.pageId = PageId, !.id = UnknownPageId] }

StatusShapes ==
    { [status |-> NoVal,       data_status |-> NoVal,   props_status |-> NoVal],
      [status |-> "Ready",     data_status |-> NoVal,   props_status |-> NoVal],
      [status |-> "Test Sent", data_status |-> NoVal,   props_status |-> NoVal],
      [status |-> "Draft",     data_status |-> NoVal,   props_status |-> NoVal],
      [status |-> "Sent",      data_status |-> NoVal,   props_status |-> NoVal],
      [status |-> NoVal,       data_status |-> "Draft", props_status |-> "Ready"],
      [status |-> NoVal,       data_status |-> NoVal,   props_status |-> "Test Sent"] }

WithStatus(b, s) ==
    [b EXCEPT !.status = s.status, !.data_status = s.data_status,
              !.props_status = s.props_status]

ReadyShape == [status |-> "Ready", data_status |-> NoVal, props_status |-> NoVal]

\* every identifier shape with a "Ready" status, every status shape with pageId
Bodies ==
    {WithStatus(b, ReadyShape) : b \in IdShapes}
        \cup {WithStatus([EmptyBody EXCEPT !.pageId = PageId], s) : s \in StatusShapes}

\* POST requests with any header and body; other methods with a well-formed one
Requests ==
    [method : {"POST"}, secret : {NoVal, "s3cret", "wrong"}, body : Bodies]
        \cup [method : {"GET", "OPTIONS"}, secret : {"s3cret", "wrong"},
              body : {EmptyBody, WithStatus([EmptyBody EXCEPT !.pageId = PageId], ReadyShape)}]

extractPageId(body) ==
    IF Truthy(body.pageId) THEN body.pageId
    ELSE IF Truthy(body.data_id) THEN body.data_id
    ELSE IF Truthy(body.id) THEN body.id
    ELSE IF Truthy(body.page_id) THEN body.page_id
    ELSE IF Truthy(body.pageID) THEN body.pageID
    ELSE IF body.object = "page" THEN body.id
    ELSE NoVal

extractStatus(body) ==
    IF Truthy(body.status) THEN body.status
    ELSE IF Truthy(body.data_status) THEN body.data_status
    ELSE IF Truthy(body.props_status) THEN body.props_status
    ELSE NoVal

(***************************************************************************)
(* State                                                                   *)
(***************************************************************************)
VARIABLES
    env,             \* process.env of the deployment (fixed after cold start)
    notionStatus,    \* persisted Status property of the newsletter page
    notionAudience,  \* persisted Audience property of the newsletter page
    concurrency,     \* invocations the platform runs at the same time
    run,             \* per handler invocation: position, locals, response
    deliveredClean,  \* a (page, "Ready") run returned success after delivery
                     \* attempts, Status being "Ready" from its arrival on, and
                     \* no other actor changed Status since
    gen,             \* a call of generateContentHtml: blocks, options, loop state
    inl,             \* a call of getRichText followed by parseInlineMarkdown,
                     \* or a text given to the two parseInlineMarkdown
    md,              \* a call of the markdown-to-block converters, or a call
                     \* of updatePageContent with the page it writes
    fetch,           \* a call of fetchNewsletterContent of the webhook
    cli              \* a run of the command-line sender and the pages it sees

vars == <<env, concurrency, notionStatus, notionAudience, run, deliveredClean,
          gen, inl, md, fetch, cli>>

\* the state of the webhook handler and of the store
handlerVars == <<env, concurrency, notionStatus, notionAudience, run, deliveredClean>>

\* the state of the library functions checked on their own
libVars == <<gen, inl, md, fetch, cli>>

\* no library call in progress
LibOff == [pc |-> "off"]

\* a handler slot with no invocation in progress
IdleRun ==
    [ pc |-> "idle", pageId |-> NoVal, status |-> NoVal,
      audiences |-> <<>>, recipients |-> <<>>, resolved |-> FALSE,
      dispatched |-> FALSE, idx |-> 0, sent |-> 0, failed |-> 0,
      calls |-> <<>>,     \* email API calls issued and completed by this run
      ops |-> <<>>,       \* store operations issued by this run
      raised |-> {},      \* store operations of this run that threw
      quiet |-> FALSE,    \* Status was "Ready" at arrival and nobody changed it
      dup |-> FALSE,      \* started after a clean delivered "Ready" run
      resp |-> [code |-> 0, success |-> FALSE, message |-> NoVal, counts |-> <<>>] ]

(***************************************************************************)
(* validateRequest and the classification of the inbound status            *)
(***************************************************************************)
\* validateRequest without the comparison of the x-webhook-secret header
validateRequest_NoSecretCheck(req) ==
    IF req.method # "POST"
    THEN [valid |-> FALSE, error |-> "Method not allowed. Use POST.",
          pageId |-> NoVal, status |-> NoVal]
    ELSE IF ~Truthy(extractPageId(req.body))
    THEN [valid |-> FALSE, error |-> "Missing pageId",
          pageId |-> NoVal, status |-> NoVal]
    ELSE [valid |-> TRUE, error |-> NoVal,
          pageId |-> extractPageId(req.body),
          status |-> IF Truthy(extractStatus(req.body))
                     THEN extractStatus(req.body) ELSE "Ready"]

\* validateRequest handing on the extracted status as it is, null included
validateRequest_NoDefault(req) ==
    IF req.method # "POST"
    THEN [valid |-> FALSE, error |-> "Method not allowed. Use POST.",
          pageId |-> NoVal, status |-> NoVal]
    ELSE IF Truthy(env.WEBHOOK_SECRET) /\ req.secret # env.WEBHOOK_SECRET
    THEN [valid |-> FALSE, error |-> "Invalid webhook secret",
          pageId |-> NoVal, status |-> NoVal]
    ELSE IF ~Truthy(extractPageId(req.body))
    THEN [valid |-> FALSE, error |-> "Missing pageId",
          pageId |-> NoVal, status |-> NoVal]
    ELSE [valid |-> TRUE, error |-> NoVal,
          pageId |-> extractPageId(req.body),
          status |-> extractStatus(req.body)]

validateRequest(req) ==
    IF req.method # "POST"
    THEN [valid |-> FALSE, error |-> "Method not allowed. Use POST.",
          pageId |-> NoVal, status |-> NoVal]
    ELSE IF Truthy(env.WEBHOOK_SECRET) /\ req.secret # env.WEBHOOK_SECRET
    THEN [valid |-> FALSE, error |-> "Invalid webhook secret",
          pageId |-> NoVal, status |-> NoVal]
    ELSE IF ~Truthy(extractPageId(req.body))
    THEN [valid |-> FALSE, error |-> "Missing pageId",
          pageId |-> NoVal, status |-> NoVal]
    ELSE [valid |-> TRUE, error |-> NoVal,
          pageId |-> extractPageId(req.body),
          status |-> IF Truthy(extractStatus(req.body))
                     THEN extractStatus(req.body) ELSE "Ready"]

isTestSend(status) == status = "Test Sent"

\* every status but the test trigger starts a full send
isFullSend_AnyStatus(status) == status # "Test Sent"

isFullSend(status) == status = "Ready"

(***************************************************************************)
(* Responses                                                               *)
(***************************************************************************)
Response(code, success, message, counts) ==
    [code |-> code, success |-> success, message |-> message, counts |-> counts]

Respond(r, resp) == [r EXCEPT !.pc = "done", !.resp = resp]

\* a catch block that answers success
ErrorResponse_Ok == Response(200, TRUE, "Webhook handler error", <<>>)

\* the catch block of the handler
ErrorResponse == Response(500, FALSE, "Webhook handler error", <<>>)

ValidationResponse(error) == Response(400, FALSE, error, <<>>)

\* the CORS preflight answer: status 200 with no body
PreflightResponse == Response(200, FALSE, NoVal, <<>>)

NoTriggerResponse == Response(200, TRUE, "Status does not trigger send", <<>>)

AlreadySentResponse == Response(200, TRUE, "Newsletter already sent", <<>>)

NoRecipientsResponse == Response(200, TRUE, "No recipients configured.", <<0, 0>>)

\* a dispatch with a failed call fails the request
SentResponse_FailIfAnyFailed(sent, failed) ==
    IF failed > 0 THEN Response(500, FALSE, "Webhook handler error", <<>>)
    ELSE Response(200, TRUE, "Newsletter sent successfully", <<sent, failed>>)

SentResponse(sent, failed) ==
    Response(200, TRUE, "Newsletter sent successfully", <<sent, failed>>)

(***************************************************************************)
(* Store reads                                                             *)
(***************************************************************************)
\* notion.pages.retrieve succeeds only for a page the store knows
PageKnown(pageId) == pageId = PageId

\* the idempotency check compares with the trigger value
isAlreadySent_Ready(status) == status = "Ready"

isAlreadySent(status) == status = "Sent"

\* the part of getNewsletterAudience after the page has been retrieved
audienceNames(prop) ==
    IF prop.type = "multi_select" THEN prop.names
    ELSE IF prop.type = "select" /\ Len(prop.names) > 0 THEN <<prop.names[1]>>
    ELSE <<>>

\* notion.databases.query with the OR of "Audience contains a" filters
databasesQuery(audiences) ==
    SelectSeq(ContactsDB, LAMBDA c : c.tags \cap Range(audiences) # {})

firstNameOf(name) == IF Len(name) = 0 THEN "" ELSE name[1]

RECURSIVE contactsOf_NoEmailFilter(_)
\* the loop of getContactsByAudience without its "if (email)"
contactsOf_NoEmailFilter(results) ==
    IF Len(results) = 0 THEN <<>>
    ELSE LET p == Head(results)
         IN  << [email |-> p.email, firstName |-> firstNameOf(p.name)] >>
                 \o contactsOf_NoEmailFilter(Tail(results))

RECURSIVE contactsOf(_)
\* the loop of getContactsByAudience over response.results
contactsOf(results) ==
    IF Len(results) = 0 THEN <<>>
    ELSE LET p == Head(results)
         IN  (IF Truthy(p.email)
              THEN << [email |-> p.email, firstName |-> firstNameOf(p.name)] >>
              ELSE <<>>) \o contactsOf(Tail(results))

\* the test branch resolves the whole contacts collection
testRecipients_All == contactsOf(ContactsDB)

\* no fallback when no contact matches
fallbackIfEmpty_None(list) == list

\* getRecipients, test branch and the two fallbacks of the full branch
testRecipients == <<TestRecipient>>

fallbackIfEmpty(list) == IF Len(list) = 0 THEN <<TestRecipient>> ELSE list

(***************************************************************************)
(* sendViaLoops                                                            *)
(***************************************************************************)
\* the configuration check forgets the template identifier
LoopsConfigured_KeyOnly == Truthy(env.LOOPS_API_KEY)

LoopsConfigured == Truthy(env.LOOPS_API_KEY) /\ Truthy(env.LOOPS_TRANSACTIONAL_ID)

CallOutcomes == {"ok", "non2xx", "throw"}

sentAfter(sent, outcome) == IF outcome = "ok" THEN sent + 1 ELSE sent

\* a tally that counts only the non-2xx answers as failures
failedAfter_Non2xxOnly(failed, outcome) ==
    IF outcome = "non2xx" THEN failed + 1 ELSE failed

failedAfter(failed, outcome) == IF outcome = "ok" THEN failed ELSE failed + 1

\* all email API calls issued at once (a parallel fan-out)
StartDispatch_Parallel(r, recipients) ==
    LET r1 == [r EXCEPT !.recipients = recipients, !.resolved = TRUE]
    IN  IF Len(recipients) = 0 THEN Respond(r1, NoRecipientsResponse)
        ELSE IF ~LoopsConfigured
        THEN Respond([r1 EXCEPT !.dispatched = TRUE], SentResponse(0, 0))
        ELSE [r1 EXCEPT !.dispatched = TRUE, !.pc = "send", !.idx = Len(recipients)]

\* the handler from the end of getRecipients to the first email API await
StartDispatch(r, recipients) ==
    LET r1 == [r EXCEPT !.recipients = recipients, !.resolved = TRUE]
    IN  IF Len(recipients) = 0 THEN Respond(r1, NoRecipientsResponse)
        ELSE IF ~LoopsConfigured
        THEN Respond([r1 EXCEPT !.dispatched = TRUE], SentResponse(0, 0))
        ELSE [r1 EXCEPT !.dispatched = TRUE, !.pc = "send", !.idx = 1]

(***************************************************************************)
(* Initial state: the drafting process has created the page as a Draft     *)
(***************************************************************************)
HandlerInit(c) ==
    /\ env \in EnvValues
    /\ concurrency = c
    /\ notionStatus = "Draft"
    /\ notionAudience \in AudienceProps
    /\ run = [p \in Procs |-> IdleRun]
    /\ deliveredClean = FALSE
    /\ gen = LibOff
    /\ inl = LibOff
    /\ md = LibOff
    /\ fetch = LibOff
    /\ cli = LibOff

Init == HandlerInit(MaxConcurrent)

\* two invocations at a time: duplicate deliveries of a webhook overlap
InitRace == HandlerInit(MaxConcurrent + 1)

(***************************************************************************)
(* The handler, one action per stretch of code between two awaits          *)
(***************************************************************************)
\* an instance is occupied from the arrival of a request until its response
\* has been delivered
Running(p) == run[p].pc # "idle"

\* handler, from its entry to the await of isAlreadySent
Receive(p, req) ==
    /\ run[p].pc = "idle"
    /\ Cardinality({q \in Procs : Running(q)}) < concurrency
    /\ LET v == validateRequest(req)
           r == run[p]
       IN  run' = [run EXCEPT ![p] =
             IF req.method = "OPTIONS" THEN Respond(r, PreflightResponse)
             ELSE IF ~v.valid THEN Respond(r, ValidationResponse(v.error))
             ELSE LET r1 == [r EXCEPT !.pageId = v.pageId, !.status = v.status]
                  IN  IF ~isTestSend(v.status) /\ ~isFullSend(v.status)
                      THEN Respond(r1, NoTriggerResponse)
                      ELSE [r1 EXCEPT !.pc = "check",
                                      !.ops = Append(@, "status"),
                                      !.quiet = notionStatus = "Ready",
                                      !.dup = deliveredClean /\ v.pageId = PageId
                                              /\ v.status = "Ready"]]
    /\ UNCHANGED <<env, concurrency, notionStatus, notionAudience, deliveredClean>>
    /\ UNCHANGED libVars

\* an idempotency check that also looks at the invocations in progress
CheckAlreadySent_Locked(p) ==
    /\ run[p].pc = "check"
    /\ \E storeOk \in BOOLEAN :
         LET r == run[p]
             busy == \E q \in Procs \ {p} :
                        /\ run[q].pageId = r.pageId
                        /\ run[q].pc \in {"fetch", "audience", "contacts", "send", "pace"}
         IN  run' = [run EXCEPT ![p] =
               IF ~(storeOk /\ PageKnown(r.pageId))
               THEN Respond([r EXCEPT !.raised = @ \cup {"status"}], ErrorResponse)
               ELSE IF isAlreadySent(notionStatus) \/ busy
               THEN Respond(r, AlreadySentResponse)
               ELSE [r EXCEPT !.pc = "fetch", !.ops = Append(@, "content")]]
    /\ UNCHANGED <<env, concurrency, notionStatus, notionAudience, deliveredClean>>
    /\ UNCHANGED libVars

\* isAlreadySent resolves or rejects; on "not sent" the content fetch is issued
CheckAlreadySent(p) ==
    /\ run[p].pc = "check"
    /\ \E storeOk \in BOOLEAN :
         LET r == run[p]
         IN  run' = [run EXCEPT ![p] =
               IF ~(storeOk /\ PageKnown(r.pageId))
               THEN Respond([r EXCEPT !.raised = @ \cup {"status"}], ErrorResponse)
               ELSE IF isAlreadySent(notionStatus)
               THEN Respond(r, AlreadySentResponse)
               ELSE [r EXCEPT !.pc = "fetch", !.ops = Append(@, "content")]]
    /\ UNCHANGED <<env, concurrency, notionStatus, notionAudience, deliveredClean>>
    /\ UNCHANGED libVars

\* fetchNewsletterContent resolves or rejects; then getRecipients starts
FetchContent(p) ==
    /\ run[p].pc = "fetch"
    /\ \E storeOk \in BOOLEAN :
         LET r == run[p]
         IN  run' = [run EXCEPT ![p] =
               IF ~storeOk
               THEN Respond([r EXCEPT !.raised = @ \cup {"content"}], ErrorResponse)
               ELSE IF isTestSend(r.status)
               THEN StartDispatch(r, testRecipients)
               ELSE [r EXCEPT !.pc = "audience", !.ops = Append(@, "audience")]]
    /\ UNCHANGED <<env, concurrency, notionStatus, notionAudience, deliveredClean>>
    /\ UNCHANGED libVars

\* getNewsletterAudience resolves (a store failure is caught and gives [])
GetAudience(p) ==
    /\ run[p].pc = "audience"
    /\ \E storeOk \in BOOLEAN :
         LET r == run[p]
             audiences == IF storeOk THEN audienceNames(notionAudience) ELSE <<>>
             r1 == IF storeOk THEN r ELSE [r EXCEPT !.raised = @ \cup {"audience"}]
         IN  run' = [run EXCEPT ![p] =
               IF Len(audiences) = 0
               THEN StartDispatch(r1, <<TestRecipient>>)
               ELSE [r1 EXCEPT !.pc = "contacts", !.audiences = audiences,
                               !.ops = Append(@, "contacts")]]
    /\ UNCHANGED <<env, concurrency, notionStatus, notionAudience, deliveredClean>>
    /\ UNCHANGED libVars

\* getContactsByAudience resolves (a store failure is caught and gives [])
QueryContacts(p) ==
    /\ run[p].pc = "contacts"
    /\ \E storeOk \in BOOLEAN :
         LET r == run[p]
             contacts == IF storeOk THEN contactsOf(databasesQuery(r.audiences))
                         ELSE <<>>
             r1 == IF storeOk THEN r ELSE [r EXCEPT !.raised = @ \cup {"contacts"}]
         IN  run' = [run EXCEPT ![p] = StartDispatch(r1, fallbackIfEmpty(contacts))]
    /\ UNCHANGED <<env, concurrency, notionStatus, notionAudience, deliveredClean>>
    /\ UNCHANGED libVars

\* the loop without its try/catch: a thrown call ends sendViaLoops and
\* reaches the catch block of the handler
SendOne_AbortOnThrow(p, outcome) ==
    /\ run[p].pc = "send"
    /\ LET r == run[p]
           recipient == r.recipients[r.idx]
           r1 == [r EXCEPT !.calls = Append(@, [email |-> recipient.email,
                                                first_name |-> recipient.firstName,
                                                outcome |-> outcome]),
                           !.sent = IF outcome = "ok" THEN @ + 1 ELSE @,
                           !.failed = IF outcome = "non2xx" THEN @ + 1 ELSE @]
       IN  run' = [run EXCEPT ![p] =
             IF outcome = "throw"
             THEN [r1 EXCEPT !.pc = "done",
                             !.resp = [code |-> 500, success |-> FALSE,
                                       message |-> "Webhook handler error",
                                       counts |-> <<>>]]
             ELSE [r1 EXCEPT !.pc = "pace"]]
    /\ UNCHANGED <<env, concurrency, notionStatus, notionAudience, deliveredClean>>
    /\ UNCHANGED libVars

\* the email API call for recipient idx completes; the pacing timer is set
SendOne(p, outcome) ==
    /\ run[p].pc = "send"
    /\ LET r == run[p]
           recipient == r.recipients[r.idx]
       IN  run' = [run EXCEPT ![p] =
             [r EXCEPT !.pc = "pace",
                       !.calls = Append(@, [email |-> recipient.email,
                                            first_name |-> IF Truthy(recipient.firstName)
                                                           THEN recipient.firstName
                                                           ELSE "there",
                                            outcome |-> outcome]),
                       !.sent = sentAfter(@, outcome),
                       !.failed = failedAfter(@, outcome)]]
    /\ UNCHANGED <<env, concurrency, notionStatus, notionAudience, deliveredClean>>
    /\ UNCHANGED libVars

\* the 100 ms timer fires: next recipient, or sendViaLoops returns and the
\* handler answers
Pace(p) ==
    /\ run[p].pc = "pace"
    /\ LET r == run[p]
           last == r.idx = Len(r.recipients)
       IN  /\ run' = [run EXCEPT ![p] =
                 IF last THEN Respond(r, SentResponse(r.sent, r.failed))
                 ELSE [r EXCEPT !.pc = "send", !.idx = @ + 1]]
           /\ deliveredClean' =
                 IF last /\ r.pageId = PageId /\ r.status = "Ready"
                         /\ r.quiet
                 THEN TRUE ELSE deliveredClean
    /\ UNCHANGED <<env, concurrency, notionStatus, notionAudience>>
    /\ UNCHANGED libVars

\* the response has been delivered; the slot serves the next invocation
Return(p) ==
    /\ run[p].pc = "done"
    /\ run' = [run EXCEPT ![p] = IdleRun]
    /\ UNCHANGED <<env, concurrency, notionStatus, notionAudience, deliveredClean>>
    /\ UNCHANGED libVars

(***************************************************************************)
(* The other actor on the store: a person editing the Status property      *)
(***************************************************************************)
EditorSetStatus(s) ==
    /\ s # notionStatus
    /\ notionStatus' = s
    /\ deliveredClean' = FALSE
    /\ run' = [p \in Procs |-> [run[p] EXCEPT !.dup = FALSE, !.quiet = FALSE]]
    /\ UNCHANGED <<env, concurrency, notionAudience>>
    /\ UNCHANGED libVars

Next ==
    \/ \E p \in Procs, req \in Requests : Receive(p, req)
    \/ \E p \in Procs : CheckAlreadySent(p)
    \/ \E p \in Procs : FetchContent(p)
    \/ \E p \in Procs : GetAudience(p)
    \/ \E p \in Procs : QueryContacts(p)
    \/ \E p \in Procs, outcome \in CallOutcomes : SendOne(p, outcome)
    \/ \E p \in Procs : Pace(p)
    \/ \E p \in Procs : Return(p)
    \/ \E s \in StatusValues : EditorSetStatus(s)

Spec == Init /\ [][Next]_vars

SpecRace == InitRace /\ [][Next]_vars

(***************************************************************************)
(* Properties of the webhook handler                                       *)
(***************************************************************************)
Done(p) == run[p].pc = "done"

StoreWrites(r) == {i \in 1..Len(r.ops) : r.ops[i] = "update"}

\* C1: a (page, "Ready") signal handled after an earlier run of the same
\* signal has returned success, with no other actor changing Status in
\* between, short-circuits: it issues no email API call.
C1_SecondReadyRunSendsNothing ==
    \A p \in Procs : run[p].dup => run[p].calls = <<>>

\* C2: a run that answers "Newsletter sent successfully" has itself written
\* Status = "Sent" to the store before answering.
C2_HandlerMarksSent ==
    \A p \in Procs :
        (Done(p) /\ run[p].resp.message = "Newsletter sent successfully")
            => StoreWrites(run[p]) # {}

\* C3: when the status read by the idempotency check is "Sent", the run
\* answers 200 / success / "Newsletter already sent" at once: the status read
\* is its only store operation, nothing is resolved and no email is sent.
C3_AlreadySentShortCircuits ==
    [][\A p \in Procs :
          (CheckAlreadySent(p) /\ notionStatus = "Sent"
             /\ "status" \notin run'[p].raised)
          => /\ run'[p].pc = "done"
             /\ run'[p].resp.code = 200
             /\ run'[p].resp.success
             /\ run'[p].resp.message = "Newsletter already sent"
             /\ run'[p].ops = <<"status">>
             /\ ~run'[p].resolved
             /\ run'[p].calls = <<>>
             /\ notionStatus' = notionStatus]_vars

C3_Witness ==
    \E p \in Procs :
        /\ Done(p)
        /\ run[p].status \in {"Ready", "Test Sent"}
        /\ run[p].resp.message = "Newsletter already sent"
        /\ notionStatus = "Sent"

\* C4: a validated signal whose status is neither "Ready" nor "Test Sent" is
\* answered 200 / success with no store operation and no email API call.
C4_NonTriggerNoAction ==
    \A p \in Procs :
        (Truthy(run[p].status) /\ run[p].status \notin {"Ready", "Test Sent"})
            => /\ Done(p)
               /\ run[p].resp.code = 200
               /\ run[p].resp.success
               /\ run[p].ops = <<>>
               /\ run[p].calls = <<>>

C4_Witness ==
    \E p \in Procs : Done(p) /\ run[p].status = "Draft" /\ run[p].pageId = PageId

\* C5 (as stated): every run in which a store operation raised an exception
\* answers 500 with success = false.
C5_AnyStoreFailureGives500 ==
    \A p \in Procs :
        (Done(p) /\ run[p].raised # {})
            => run[p].resp.code = 500 /\ ~run[p].resp.success

\* C5 (amended): a failing status read or content fetch ends the run with
\* 500 / success = false, no write to the store and no email; a failing
\* audience read or contacts query is caught inside recipient resolution and
\* the run goes on with the fallback recipient, again without a store write.
C5_PropagatedFailureGives500 ==
    \A p \in Procs :
        /\ (run[p].raised \cap {"status", "content"} # {})
              => /\ Done(p)
                 /\ run[p].resp.code = 500
                 /\ ~run[p].resp.success
                 /\ run[p].calls = <<>>
        /\ (run[p].raised \cap {"audience", "contacts"} # {})
              => /\ run[p].resolved
                 /\ run[p].recipients = <<TestRecipient>>
                 /\ Done(p) => run[p].resp.code = 200
        /\ StoreWrites(run[p]) = {}

C5_Witness ==
    \E p \in Procs :
        /\ Done(p)
        /\ "content" \in run[p].raised
        /\ run[p].resp.code = 500
        /\ notionStatus = "Ready"

\* the conditions of C6, for a request that is not the CORS preflight
Rejectable(req) ==
    /\ req.method # "OPTIONS"
    /\ \/ req.method # "POST"
       \/ Truthy(env.WEBHOOK_SECRET) /\ req.secret # env.WEBHOOK_SECRET
       \/ ~Truthy(extractPageId(req.body))

C7_RecipientsNeverEmpty ==
    \A p \in Procs : run[p].resolved => Len(run[p].recipients) >= 1

C7_Witness ==
    \E p \in Procs :
        /\ run[p].resolved
        /\ run[p].status = "Ready"
        /\ run[p].raised = {}
        /\ run[p].ops = <<"status", "content", "audience", "contacts">>
        /\ run[p].recipients = <<TestRecipient>>

\* C8: a "Test Sent" run does no store lookup to resolve its recipients, the
\* resolved list is exactly the test recipient, and every email API call of
\* the run is addressed to TEST_EMAIL.
C8_TestSendOnlyTestAddress ==
    \A p \in Procs :
        run[p].status = "Test Sent"
            => /\ "audience" \notin Range(run[p].ops)
               /\ "contacts" \notin Range(run[p].ops)
               /\ run[p].resolved => run[p].recipients = <<TestRecipient>>
               /\ \A i \in 1..Len(run[p].calls) : run[p].calls[i].email = TEST_EMAIL

C8_Witness ==
    \E p \in Procs :
        /\ run[p].status = "Test Sent"
        /\ Done(p)
        /\ Len(run[p].calls) = 1
        /\ notionAudience.names = <<"Customers">>

\* C9: with the API key or the template identifier not configured,
\* sendViaLoops returns {sent: 0, failed: 0} and issues no email API call.
C9_NotConfiguredNoCall ==
    \A p \in Procs :
        (run[p].dispatched
           /\ (~Truthy(env.LOOPS_API_KEY) \/ ~Truthy(env.LOOPS_TRANSACTIONAL_ID)))
            => /\ Done(p)
               /\ run[p].resp.counts = <<0, 0>>
               /\ run[p].calls = <<>>

C9_Witness ==
    \E p \in Procs :
        /\ run[p].dispatched
        /\ Truthy(env.LOOPS_API_KEY)
        /\ ~Truthy(env.LOOPS_TRANSACTIONAL_ID)
        /\ Len(run[p].recipients) = 3

\* C10: with the email API configured, exactly one call is issued for every
\* recipient, in list order, whatever the outcome of the earlier calls; with
\* 3 recipients of which only the 2nd call throws the result is {2, 1}.
C10_OneCallPerRecipient ==
    \A p \in Procs :
        (run[p].dispatched /\ Truthy(env.LOOPS_API_KEY)
           /\ Truthy(env.LOOPS_TRANSACTIONAL_ID))
            => LET r == run[p]
               IN  /\ Len(r.calls) <= Len(r.recipients)
                   /\ \A i \in 1..Len(r.calls) : r.calls[i].email = r.recipients[i].email
                   /\ r.pc = "send" => Len(r.calls) = r.idx - 1
                   /\ r.pc = "pace" => Len(r.calls) = r.idx
                   /\ r.pc = "done"
                        => /\ Len(r.calls) = Len(r.recipients)
                           /\ r.resp.code = 200
                           /\ ([i \in 1..Len(r.calls) |-> r.calls[i].outcome]
                                  = <<"ok", "throw", "ok">>
                                 => r.resp.counts = <<2, 1>>)

C10_Witness ==
    \E p \in Procs :
        /\ Done(p)
        /\ Len(run[p].recipients) = 3
        /\ Len(run[p].calls) = 3
        /\ [i \in 1..3 |-> run[p].calls[i].outcome] = <<"ok", "throw", "ok">>
        /\ run[p].resp.counts = <<2, 1>>

\* C11: a dispatch with failed calls (non-2xx or thrown) does not fail the
\* request: the answer is 200 / success with the sent and failed counts.
C11_FailedCallsStillSuccess ==
    \A p \in Procs :
        LET r == run[p]
            ok == {i \in 1..Len(r.calls) : r.calls[i].outcome = "ok"}
            ko == {i \in 1..Len(r.calls) : r.calls[i].outcome \in {"non2xx", "throw"}}
        IN  (Done(p) /\ r.dispatched /\ ko # {})
               => /\ r.resp.code = 200
                  /\ r.resp.success
                  /\ r.resp.counts = <<Cardinality(ok), Cardinality(ko)>>

C11_Witness ==
    \E p \in Procs :
        /\ Done(p)
        /\ Len(run[p].calls) = 3
        /\ \A i \in 1..3 : run[p].calls[i].outcome # "ok"
        /\ run[p].calls[1].outcome # run[p].calls[2].outcome
        /\ run[p].resp.counts = <<0, 3>>

\* C16: the idempotency check takes no account of invocations in progress:
\* a successful status read lets the run go on to the content fetch exactly
\* when the persisted status is not "Sent"; so two overlapping runs of the
\* same "Ready" signal both dispatch.
C16_CheckSeesOnlyPersistedStatus ==
    [][\A p \in Procs :
          (run[p].pc = "check" /\ run'[p].pc # "check"
             /\ "status" \notin run'[p].raised)
          => (run'[p].pc = "fetch" <=> notionStatus # "Sent")]_vars

C16_Witness ==
    \E p \in Procs : \E q \in Procs \ {p} :
        /\ run[p].pageId = PageId /\ run[q].pageId = PageId
        /\ run[p].status = "Ready" /\ run[q].status = "Ready"
        /\ run[p].pc \in {"send", "pace"} /\ run[q].pc \in {"send", "pace"}
        /\ Len(run[p].calls) >= 1 /\ Len(run[q].calls) >= 1
        /\ run[p].calls[1].email = run[q].calls[1].email
        /\ run[p].calls[1].email = "ann@x.io"

\* C17: within a dispatch at most one email API call is in flight; the call
\* for the next recipient is issued only once the previous call has completed
\* and the pacing timer has fired; calls complete in recipient-list order.
C17_DispatchIsSerial ==
    [][\A p \in Procs :
          LET r == run[p]
              n == run'[p]
          IN  /\ n.idx - Len(n.calls) \in {0, 1}
              /\ (n.idx # r.idx /\ n.pc # "idle")
                    => /\ n.idx = r.idx + 1
                       /\ Len(r.calls) = r.idx
                       /\ r.idx > 0 => r.pc = "pace"
              /\ Len(n.calls) > Len(r.calls)
                    => /\ r.pc = "send"
                       /\ Len(n.calls) = Len(r.calls) + 1
                       /\ SubSeq(n.calls, 1, Len(r.calls)) = r.calls
                       /\ n.calls[Len(n.calls)].email = r.recipients[Len(n.calls)].email]_vars

C17_Witness ==
    \E p \in Procs :
        /\ run[p].pc = "send"
        /\ run[p].idx = 2
        /\ Len(run[p].calls) = 1
        /\ Len(run[p].recipients) = 3

\* the contacts with an email whose tags meet the document's audience tags
MatchingContacts ==
    SelectSeq(ContactsDB, LAMBDA c : /\ c.tags \cap Range(notionAudience.names) # {}
                                     /\ c.email \notin {NoVal, ""})

includes(s, d) ==
    \E i \in 1..(Len(s) - Len(d) + 1) : SubSeq(s, i, i + Len(d) - 1) = d

\* number of matches of the literal d in s (d does not overlap itself)
Occurrences(s, d) ==
    Cardinality({i \in 1..(Len(s) - Len(d) + 1) : SubSeq(s, i, i + Len(d) - 1) = d})

startsWith(s, d) == Len(s) >= Len(d) /\ SubSeq(s, 1, Len(d)) = d

endsWith(s, d) == Len(s) >= Len(d) /\ SubSeq(s, Len(s) - Len(d) + 1, Len(s)) = d

WhiteSpace == {" ", "\n", "\t", "\r"}

RECURSIVE trimStart(_)
trimStart(s) ==
    IF Len(s) > 0 /\ Head(s) \in WhiteSpace THEN trimStart(Tail(s)) ELSE s

RECURSIVE trimEnd(_)
trimEnd(s) ==
    IF Len(s) > 0 /\ s[Len(s)] \in WhiteSpace THEN trimEnd(SubSeq(s, 1, Len(s) - 1)) ELSE s

\* String.prototype.trim
trim(s) == trimEnd(trimStart(s))

RECURSIVE join(_)
\* Array.prototype.join('') of an array of strings
join(strs) ==
    IF Len(strs) = 0 THEN <<>>
    ELSE IF Len(strs) = 1 THEN strs[1]
    ELSE join(SubSeq(strs, 1, Len(strs) \div 2))
            \o join(SubSeq(strs, Len(strs) \div 2 + 1, Len(strs)))

\* the character U+0060 (grave accent), which a TLA+ string cannot hold
GraveAccent == "U+0060"

DecimalDigits == <<"0", "1", "2", "3", "4", "5", "6", "7", "8", "9">>

RECURSIVE numberToString(_)
\* String(n) of a non-negative integer
numberToString(n) ==
    IF n < 10 THEN <<DecimalDigits[n + 1]>>
    ELSE numberToString(n \div 10) \o <<DecimalDigits[(n % 10) + 1]>>

(***************************************************************************)
(* lib/html-generator.ts: rich text                                        *)
(***************************************************************************)
\* a rich_text item: plain_text, the annotations that are true, href
\* (the empty string stands for null / undefined)
RichTextItem(text, annotations, href) ==
    [plain_text |-> text, annotations |-> annotations, href |-> href]

\* a rich_text array with one unannotated item
PlainRichText(text) == << RichTextItem(text, {}, <<>>) >>

\* the callback of richText.map in getRichText, without the underline wrap
getRichTextItem_Markdown(t) ==
    LET t0 == t.plain_text
        t2 == IF "bold" \in t.annotations THEN <<"*", "*">> \o t0 \o <<"*", "*">> ELSE t0
        t3 == IF "italic" \in t.annotations THEN <<"*">> \o t2 \o <<"*">> ELSE t2
        t4 == IF "code" \in t.annotations THEN <<GraveAccent>> \o t3 \o <<GraveAccent>> ELSE t3
    IN  IF Len(t.href) > 0 THEN <<"[">> \o t4 \o <<"]", "(">> \o t.href \o <<")">> ELSE t4

\* the callback of richText.map in getRichText
getRichTextItem(t) ==
    LET t0 == t.plain_text
        t1 == IF "underline" \in t.annotations THEN <<"<", "u", ">">> \o t0 \o <<"<", "/", "u", ">">> ELSE t0
        t2 == IF "bold" \in t.annotations THEN <<"<", "s", "t", "r", "o", "n", "g", ">">> \o t1 \o <<"<", "/", "s", "t", "r", "o", "n", "g", ">">> ELSE t1
        t3 == IF "italic" \in t.annotations THEN <<"<", "e", "m", ">">> \o t2 \o <<"<", "/", "e", "m", ">">> ELSE t2
        t4 == IF "code" \in t.annotations THEN <<"<", "c", "o", "d", "e", ">">> \o t3 \o <<"<", "/", "c", "o", "d", "e", ">">> ELSE t3
    IN  IF Len(t.href) > 0
        THEN <<"<", "a", " ", "h", "r", "e", "f", "=", "\"">> \o t.href \o <<"\"", ">">> \o t4 \o <<"<", "/", "a", ">">>
        ELSE t4

getRichText(richText) ==
    join([k \in 1..Len(richText) |-> getRichTextItem(richText[k])])

getPlainText(richText) ==
    join([k \in 1..Len(richText) |-> richText[k].plain_text])

(***************************************************************************)
(* lib/html-generator.ts: generateContentHtml                              *)
(***************************************************************************)
DEFAULT_SKIP_SECTIONS == << <<"C", "o", "l", "l", "a", "t", "e", "r", "a", "l", " ", "C", "h", "e", "c", "k", "l", "i", "s", "t">>, <<"R", "e", "v", "i", "e", "w", " ", "Q", "u", "e", "s", "t", "i", "o", "n", "s">> >>

VIDEO_DOMAINS ==
    << <<"l", "o", "o", "m", ".", "c", "o", "m">>, <<"s", "c", "r", "e", "e", "n", ".", "s", "t", "u", "d", "i", "o">>, <<"y", "o", "u", "t", "u", "b", "e", ".", "c", "o", "m">>, <<"y", "o", "u", "t", "u", ".", "b", "e">>, <<"v", "i", "m", "e", "o", ".", "c", "o", "m">>,
       <<"s", "c", "r", "e", "e", "n", "c", "a", "s", "t">> >>

\* a block of the page: type, rich_text of the block, the URL of an image,
\* video, embed or bookmark block (empty: none), caption of an image
Block(type, richText, url, caption) ==
    [type |-> type, rich_text |-> richText, url |-> url, caption |-> caption]

\* number of blocks of a page
MaxBlocks == 3

\* the block values a page is made of
BlockValues ==
    { Block("heading_1", PlainRichText(<<"N", "e", "w", "s">>), <<>>, <<>>),
      Block("heading_2", PlainRichText(<<"C", "o", "l", "l", "a", "t", "e", "r", "a", "l", " ", "C", "h", "e", "c", "k", "l", "i", "s", "t">>), <<>>, <<>>),
      Block("paragraph", PlainRichText(<<"H", "i">>), <<>>, <<>>),
      Block("paragraph", <<>>, <<>>, <<>>),
      Block("paragraph", PlainRichText(<<"<", "u", "l", ">">>), <<>>, <<>>),
      Block("paragraph", << RichTextItem(<<"D", "e", "m", "o">>, {}, <<"l", "o", "o", "m", ".", "c", "o", "m", "/", "v">>) >>, <<>>, <<>>),
      Block("heading_3", PlainRichText(<<"W", "h", "y">>), <<>>, <<>>),
      Block("heading_3", PlainRichText(<<"Q", ":", " ">>), <<>>, <<>>),
      Block("bulleted_list_item", PlainRichText(<<"B", "1">>), <<>>, <<>>),
      Block("numbered_list_item", PlainRichText(<<"N", "1">>), <<>>, <<>>),
      Block("image", <<>>, <<"i", ".", "p", "n", "g">>, <<>>),
      Block("image", <<>>, <<>>, <<>>),
      Block("bookmark", <<>>, <<"y", "o", "u", "t", "u", ".", "b", "e", "/", "x">>, <<>>) }

RECURSIVE SeqsUpTo(_, _)
\* the sequences over S of length at most n
SeqsUpTo(S, n) ==
    IF n = 0 THEN {<<>>}
    ELSE LET shorter == SeqsUpTo(S, n - 1)
         IN  shorter \cup {Append(q, x) : q \in shorter, x \in S}

\* ContentGeneratorOptions after the defaults of lines 88-93; uploadImage is
\* whether a callback is given
GeneratorOptions ==
    { [includeToc |-> TRUE,  uploadImage |-> FALSE, pageId |-> <<>>,   skipSections |-> DEFAULT_SKIP_SECTIONS],
      [includeToc |-> FALSE, uploadImage |-> FALSE, pageId |-> <<>>,   skipSections |-> DEFAULT_SKIP_SECTIONS],
      [includeToc |-> TRUE,  uploadImage |-> TRUE,  pageId |-> <<"p", "1">>,  skipSections |-> DEFAULT_SKIP_SECTIONS],
      [includeToc |-> TRUE,  uploadImage |-> FALSE, pageId |-> <<>>,   skipSections |-> <<>>] }

DefaultOptions ==
    [includeToc |-> TRUE, uploadImage |-> FALSE, pageId |-> <<>>,
     skipSections |-> DEFAULT_SKIP_SECTIONS]

\* what the uploadImage callback resolves to: a permanent URL or null
UploadOutcomes == { <<"c", "d", "n", "/", "i", ".", "p", "n", "g">>, <<>> }

ListTypes == {"bulleted_list_item", "numbered_list_item"}

\* html += s; out records which statement emitted it and for which block
\* (block 0: the table of contents frame)
emit(g, kind, src, s) ==
    [g EXCEPT !.html = @ \o s, !.out = Append(@, [kind |-> kind, src |-> src])]

\* closeOpenLists that forgets the numbered list
closeOpenLists_BulletedOnly(g, src) ==
    IF g.inBulletedList
    THEN [emit(g, "/ul", src, <<"<", "/", "u", "l", ">", "\n">>) EXCEPT !.inBulletedList = FALSE]
    ELSE g

closeOpenLists(g, src) ==
    LET g1 == IF g.inBulletedList
              THEN [emit(g, "/ul", src, <<"<", "/", "u", "l", ">", "\n">>) EXCEPT !.inBulletedList = FALSE]
              ELSE g
    IN  IF g1.inNumberedList
        THEN [emit(g1, "/ol", src, <<"<", "/", "o", "l", ">", "\n">>) EXCEPT !.inNumberedList = FALSE]
        ELSE g1

\* first pass: the positions of the heading_1 blocks with a text
tocItems(blocks, includeToc) ==
    IF includeToc
    THEN SelectSeq([k \in 1..Len(blocks) |-> k],
                   LAMBDA k : /\ blocks[k].type = "heading_1"
                              /\ Len(getPlainText(blocks[k].rich_text)) > 0)
    ELSE <<>>

RECURSIVE tocEntries(_, _, _, _)
\* tocItems.forEach from entry idx on
tocEntries(g, blocks, items, idx) ==
    IF idx > Len(items) THEN g
    ELSE tocEntries(
            emit(g, "toc-li", items[idx],
                 <<"<", "l", "i", ">">> \o numberToString(idx) \o <<".", " ">>
                     \o getPlainText(blocks[items[idx]].rich_text) \o <<"<", "/", "l", "i", ">", "\n">>),
            blocks, items, idx + 1)

\* lines 116-124
generateToc(g) ==
    LET items == tocItems(g.blocks, g.opts.includeToc)
    IN  IF Len(items) > 0
        THEN LET g1 == emit(g, "toc-div", 0, <<"<", "d", "i", "v", " ", "c", "l", "a", "s", "s", "=", "\"", "t", "o", "c", "-", "b", "o", "x", "\"", ">", "\n">>)
                 g2 == emit(g1, "toc-p", 0, <<"<", "p", ">", "I", "n", " ", "T", "h", "i", "s", " ", "I", "s", "s", "u", "e", "<", "/", "p", ">", "\n">>)
                 g3 == emit(g2, "ul", 0, <<"<", "u", "l", ">", "\n">>)
                 g4 == tocEntries(g3, g.blocks, items, 1)
                 g5 == emit(g4, "/ul", 0, <<"<", "/", "u", "l", ">", "\n">>)
             IN  emit(g5, "/toc-div", 0, <<"<", "/", "d", "i", "v", ">", "\n">>)
        ELSE g

detectVideoLink(blocks, next) ==
    IF next > Len(blocks) THEN <<>>
    ELSE LET nextBlock == blocks[next]
             rt == nextBlock.rich_text
             url == IF nextBlock.type = "paragraph"
                    THEN IF Len(rt) > 0 /\ Len(rt[1].href) > 0 THEN rt[1].href
                         ELSE getPlainText(rt)
                    ELSE IF nextBlock.type = "bookmark" THEN nextBlock.url
                    ELSE <<>>
         IN  IF Len(url) > 0 /\ \E k \in 1..Len(VIDEO_DOMAINS) : includes(url, VIDEO_DOMAINS[k])
             THEN url
             ELSE <<>>

imgTag(url, alt) ==
    <<"<", "i", "m", "g", " ", "s", "r", "c", "=", "\"">> \o url \o <<"\"", " ", "a", "l", "t", "=", "\"">> \o alt \o <<"\"", " ", "s", "t", "y", "l", "e", "=", "\"", "m", "a", "x", "-", "w", "i", "d", "t", "h", ":", "1", "0", "0", "%", ";", "\"", ">">>

\* case 'image' without the i++ of line 223
caseImage_NoSkip(g, i, permanentUrl) ==
    LET b == g.blocks[i]
        caption == getPlainText(b.caption)
        imageUrl == IF g.opts.uploadImage /\ Len(g.opts.pageId) > 0 /\ Len(permanentUrl) > 0
                    THEN permanentUrl ELSE b.url
        videoLink == detectVideoLink(g.blocks, i + 1)
    IN  IF Len(b.url) = 0 THEN g
        ELSE IF Len(videoLink) > 0
        THEN emit(emit(g, "video-thumb", i,
                       <<"<", "a", " ", "h", "r", "e", "f", "=", "\"">> \o videoLink
                           \o <<"\"", " ", "t", "a", "r", "g", "e", "t", "=", "\"", "_", "b", "l", "a", "n", "k", "\"", " ", "s", "t", "y", "l", "e", "=", "\"", "d", "i", "s", "p", "l", "a", "y", ":", "b", "l", "o", "c", "k", ";", "t", "e", "x", "t", "-", "d", "e", "c", "o", "r", "a", "t", "i", "o", "n", ":", "n", "o", "n", "e", ";", "\"", ">">>
                           \o imgTag(imageUrl, caption) \o <<"<", "/", "a", ">", "\n">>),
                  "video-caption", i, <<"<", "p", " ", "c", "l", "a", "s", "s", "=", "\"", "v", "i", "d", "e", "o", "-", "c", "a", "p", "t", "i", "o", "n", "\"", ">", "T", "a", "p", " ", "i", "m", "a", "g", "e", " ", "t", "o", " ", "v", "i", "e", "w", " ", "v", "i", "d", "e", "o", "<", "/", "p", ">", "\n">>)
        ELSE LET g1 == emit(g, "img", i, imgTag(imageUrl, caption) \o <<"\n">>)
             IN  IF Len(caption) > 0
                 THEN emit(g1, "image-caption", i,
                           <<"<", "p", " ", "c", "l", "a", "s", "s", "=", "\"", "i", "m", "a", "g", "e", "-", "c", "a", "p", "t", "i", "o", "n", "\"", ">">> \o caption \o <<"<", "/", "p", ">", "\n">>)
                 ELSE g1

\* case 'image' (lines 203-231); i is advanced past a consumed video link
caseImage(g, i, permanentUrl) ==
    LET b == g.blocks[i]
        caption == getPlainText(b.caption)
        imageUrl == IF g.opts.uploadImage /\ Len(g.opts.pageId) > 0 /\ Len(permanentUrl) > 0
                    THEN permanentUrl ELSE b.url
        videoLink == detectVideoLink(g.blocks, i + 1)
    IN  IF Len(b.url) = 0 THEN g
        ELSE IF Len(videoLink) > 0
        THEN [emit(emit(g, "video-thumb", i,
                        <<"<", "a", " ", "h", "r", "e", "f", "=", "\"">> \o videoLink
                            \o <<"\"", " ", "t", "a", "r", "g", "e", "t", "=", "\"", "_", "b", "l", "a", "n", "k", "\"", " ", "s", "t", "y", "l", "e", "=", "\"", "d", "i", "s", "p", "l", "a", "y", ":", "b", "l", "o", "c", "k", ";", "t", "e", "x", "t", "-", "d", "e", "c", "o", "r", "a", "t", "i", "o", "n", ":", "n", "o", "n", "e", ";", "\"", ">">>
                            \o imgTag(imageUrl, caption) \o <<"<", "/", "a", ">", "\n">>),
                   "video-caption", i, <<"<", "p", " ", "c", "l", "a", "s", "s", "=", "\"", "v", "i", "d", "e", "o", "-", "c", "a", "p", "t", "i", "o", "n", "\"", ">", "T", "a", "p", " ", "i", "m", "a", "g", "e", " ", "t", "o", " ", "v", "i", "e", "w", " ", "v", "i", "d", "e", "o", "<", "/", "p", ">", "\n">>)
                EXCEPT !.i = i + 1]
        ELSE LET g1 == emit(g, "img", i, imgTag(imageUrl, caption) \o <<"\n">>)
             IN  IF Len(caption) > 0
                 THEN emit(g1, "image-caption", i,
                           <<"<", "p", " ", "c", "l", "a", "s", "s", "=", "\"", "i", "m", "a", "g", "e", "-", "c", "a", "p", "t", "i", "o", "n", "\"", ">">> \o caption \o <<"<", "/", "p", ">", "\n">>)
                 ELSE g1

\* /\.(gif|png|jpg|jpeg|webp)/i.test(embedUrl) || embedUrl.includes('giphy')
isImageUrl(url) ==
    \/ \E ext \in { <<".", "g", "i", "f">>, <<".", "p", "n", "g">>, <<".", "j", "p", "g">>, <<".", "j", "p", "e", "g">>, <<".", "w", "e", "b", "p">>,
                    <<".", "G", "I", "F">>, <<".", "P", "N", "G">>, <<".", "J", "P", "G">>, <<".", "J", "P", "E", "G">>, <<".", "W", "E", "B", "P">> } : includes(url, ext)
    \/ includes(url, <<"g", "i", "p", "h", "y">>)

\* case 'bulleted_list_item' that leaves an open numbered list open
caseBulleted_NoClose(g, i) ==
    LET g1 == IF g.inBulletedList THEN g
              ELSE [emit(g, "ul", i, <<"<", "u", "l", ">", "\n">>) EXCEPT !.inBulletedList = TRUE]
    IN  emit(g1, "li", i, <<" ", " ", "<", "l", "i", ">">> \o getRichText(g.blocks[i].rich_text) \o <<"<", "/", "l", "i", ">", "\n">>)

\* case 'bulleted_list_item' (lines 173-180)
caseBulleted(g, i) ==
    LET g1 == IF g.inBulletedList THEN g
              ELSE LET g0 == IF g.inNumberedList
                             THEN [emit(g, "/ol", i, <<"<", "/", "o", "l", ">", "\n">>)
                                     EXCEPT !.inNumberedList = FALSE]
                             ELSE g
                   IN  [emit(g0, "ul", i, <<"<", "u", "l", ">", "\n">>) EXCEPT !.inBulletedList = TRUE]
    IN  emit(g1, "li", i, <<" ", " ", "<", "l", "i", ">">> \o getRichText(g.blocks[i].rich_text) \o <<"<", "/", "l", "i", ">", "\n">>)

\* case 'numbered_list_item' (lines 182-189)
caseNumbered(g, i) ==
    LET g1 == IF g.inNumberedList THEN g
              ELSE LET g0 == IF g.inBulletedList
                             THEN [emit(g, "/ul", i, <<"<", "/", "u", "l", ">", "\n">>)
                                     EXCEPT !.inBulletedList = FALSE]
                             ELSE g
                   IN  [emit(g0, "ol", i, <<"<", "o", "l", ">", "\n">>) EXCEPT !.inNumberedList = TRUE]
    IN  emit(g1, "li", i, <<" ", " ", "<", "l", "i", ">">> \o getRichText(g.blocks[i].rich_text) \o <<"<", "/", "l", "i", ">", "\n">>)

\* case 'heading_3' that tests the untrimmed text
caseHeading3_NoTrim(g, i) ==
    LET b == g.blocks[i]
    IN  IF endsWith(getPlainText(b.rich_text), <<":">>)
        THEN emit(g, "h4", i, <<"<", "h", "4", ">">> \o getRichText(b.rich_text) \o <<"<", "/", "h", "4", ">", "\n">>)
        ELSE emit(g, "h3", i, <<"<", "h", "3", ">">> \o getRichText(b.rich_text) \o <<"<", "/", "h", "3", ">", "\n">>)

\* case 'heading_3' (lines 155-165): a text that ends with ":" is a label
caseHeading3(g, i) ==
    LET b == g.blocks[i]
    IN  IF endsWith(trim(getPlainText(b.rich_text)), <<":">>)
        THEN emit(g, "h4", i, <<"<", "h", "4", ">">> \o getRichText(b.rich_text) \o <<"<", "/", "h", "4", ">", "\n">>)
        ELSE emit(g, "h3", i, <<"<", "h", "3", ">">> \o getRichText(b.rich_text) \o <<"<", "/", "h", "3", ">", "\n">>)

\* the switch of lines 146-252 for block i
switchType(g, i, permanentUrl) ==
    LET b == g.blocks[i]
        rich == getRichText(b.rich_text)
    IN  CASE b.type = "heading_1" -> emit(g, "h1", i, <<"<", "h", "1", ">">> \o rich \o <<"<", "/", "h", "1", ">", "\n">>)
          [] b.type = "heading_2" -> emit(g, "h2", i, <<"<", "h", "2", ">">> \o rich \o <<"<", "/", "h", "2", ">", "\n">>)
          [] b.type = "heading_3" -> caseHeading3(g, i)
          [] b.type = "paragraph" ->
                IF Len(rich) > 0 THEN emit(g, "p", i, <<"<", "p", ">">> \o rich \o <<"<", "/", "p", ">", "\n">>) ELSE g
          [] b.type = "bulleted_list_item" -> caseBulleted(g, i)
          [] b.type = "numbered_list_item" -> caseNumbered(g, i)
          [] b.type = "quote" ->
                emit(g, "blockquote", i, <<"<", "b", "l", "o", "c", "k", "q", "u", "o", "t", "e", ">">> \o rich \o <<"<", "/", "b", "l", "o", "c", "k", "q", "u", "o", "t", "e", ">", "\n">>)
          [] b.type = "divider" -> emit(g, "hr", i, <<"<", "h", "r", ">", "\n">>)
          [] b.type = "callout" ->
                emit(g, "callout", i, <<"<", "d", "i", "v", " ", "c", "l", "a", "s", "s", "=", "\"", "c", "a", "l", "l", "o", "u", "t", "\"", ">">> \o rich \o <<"<", "/", "d", "i", "v", ">", "\n">>)
          [] b.type = "image" -> caseImage(g, i, permanentUrl)
          [] b.type = "video" ->
                IF Len(b.url) > 0
                THEN emit(g, "video", i, <<"<", "p", ">", "<", "a", " ", "h", "r", "e", "f", "=", "\"">> \o b.url \o <<"\"", ">", "W", "a", "t", "c", "h", " ", "V", "i", "d", "e", "o", "<", "/", "a", ">", "<", "/", "p", ">", "\n">>)
                ELSE g
          [] b.type = "embed" ->
                IF Len(b.url) = 0 THEN g
                ELSE IF isImageUrl(b.url)
                THEN emit(g, "embed-img", i,
                          <<"<", "i", "m", "g", " ", "s", "r", "c", "=", "\"">> \o b.url
                              \o <<"\"", " ", "a", "l", "t", "=", "\"", "E", "m", "b", "e", "d", "d", "e", "d", " ", "c", "o", "n", "t", "e", "n", "t", "\"", " ", "s", "t", "y", "l", "e", "=", "\"", "m", "a", "x", "-", "w", "i", "d", "t", "h", ":", "1", "0", "0", "%", ";", "\"", ">", "\n">>)
                ELSE emit(g, "embed-link", i,
                          <<"<", "p", ">", "<", "a", " ", "h", "r", "e", "f", "=", "\"">> \o b.url \o <<"\"", ">", "V", "i", "e", "w", " ", "C", "o", "n", "t", "e", "n", "t", "<", "/", "a", ">", "<", "/", "p", ">", "\n">>)
          [] OTHER -> g

\* one iteration of the second pass (lines 127-253) for block g.i
loopBody(g, permanentUrl) ==
    LET i == g.i
        b == g.blocks[i]
    IN  IF /\ b.type = "heading_2"
           /\ \E k \in 1..Len(g.opts.skipSections) :
                 g.opts.skipSections[k] = getPlainText(b.rich_text)
        THEN [closeOpenLists(g, i) EXCEPT !.pc = "break"]
        ELSE LET g1 == IF b.type \notin ListTypes THEN closeOpenLists(g, i) ELSE g
                 g2 == switchType(g1, i, permanentUrl)
             IN  [g2 EXCEPT !.i = @ + 1]

\* the call generateContentHtml(blocks, options) before its first statement
GenCall(blocks, opts) ==
    [pc |-> "start", blocks |-> blocks, opts |-> opts, html |-> <<>>, out |-> <<>>,
     i |-> 1, inBulletedList |-> FALSE, inNumberedList |-> FALSE]

\* the handler is not part of a run of the library functions
HandlerOff ==
    /\ env = [WEBHOOK_SECRET |-> NoVal, LOOPS_API_KEY |-> NoVal,
              LOOPS_TRANSACTIONAL_ID |-> NoVal]
    /\ concurrency = 0
    /\ notionStatus = "Draft"
    /\ notionAudience = [type |-> "none", names |-> <<>>]
    /\ run = [p \in Procs |-> IdleRun]
    /\ deliveredClean = FALSE

InitRender ==
    /\ HandlerOff
    /\ fetch = LibOff
    /\ cli = LibOff
    /\ gen \in {GenCall(blocks, opts) : blocks \in SeqsUpTo(BlockValues, MaxBlocks),
                                        opts \in GeneratorOptions}
    /\ inl = LibOff
    /\ md = LibOff

\* first pass and table of contents
GenToc ==
    /\ gen.pc = "start"
    /\ gen' = [generateToc(gen) EXCEPT !.pc = "loop"]
    /\ UNCHANGED <<handlerVars, inl, md, fetch, cli>>

\* one iteration of the for loop; the await of uploadImage resolves in it
GenBlock ==
    /\ gen.pc = "loop"
    /\ gen.i <= Len(gen.blocks)
    /\ \E permanentUrl \in UploadOutcomes : gen' = loopBody(gen, permanentUrl)
    /\ UNCHANGED <<handlerVars, inl, md, fetch, cli>>

\* the promise of uploadImage rejects: generateContentHtml rejects
GenUploadRejects ==
    /\ gen.pc = "loop"
    /\ gen.i <= Len(gen.blocks)
    /\ gen.blocks[gen.i].type = "image"
    /\ Len(gen.blocks[gen.i].url) > 0
    /\ gen.opts.uploadImage /\ Len(gen.opts.pageId) > 0
    /\ gen' = [gen EXCEPT !.pc = "rejected"]
    /\ UNCHANGED <<handlerVars, inl, md, fetch, cli>>

\* the loop is left (end of the blocks or break): closeOpenLists, return html
GenReturn ==
    /\ \/ gen.pc = "loop" /\ gen.i > Len(gen.blocks)
       \/ gen.pc = "break"
    /\ gen' = [closeOpenLists(gen, Len(gen.blocks) + 1) EXCEPT !.pc = "returned"]
    /\ UNCHANGED <<handlerVars, inl, md, fetch, cli>>

NextRender == GenToc \/ GenBlock \/ GenUploadRejects \/ GenReturn

SpecRender == InitRender /\ [][NextRender]_vars

(***************************************************************************)
(* Properties of generateContentHtml                                       *)
(***************************************************************************)
\* position of the first heading_2 whose text is a skip section (past the
\* end: none)
FirstSkip(g) ==
    LET ks == {k \in 1..Len(g.blocks) :
                 /\ g.blocks[k].type = "heading_2"
                 /\ getPlainText(g.blocks[k].rich_text) \in Range(g.opts.skipSections)}
    IN  IF ks = {} THEN Len(g.blocks) + 1
        ELSE CHOOSE k \in ks : \A m \in ks : k <= m

\* block j is the link block after an image with a URL, inside the rendered part
Consumed(g, j) ==
    /\ j > 1 /\ j < FirstSkip(g)
    /\ g.blocks[j - 1].type = "image"
    /\ Len(g.blocks[j - 1].url) > 0
    /\ Len(detectVideoLink(g.blocks, j)) > 0

\* what the second pass emitted
BodyOut(g) == SelectSeq(g.out, LAMBDA e : e.kind \notin {"toc-div", "toc-p", "toc-li", "/toc-div"}
                                         /\ e.src # 0)

\* C12: the returned HTML has as many <ul> as </ul> and as many <ol> as </ol>.
C12_ListTagsBalanced ==
    gen.pc = "returned"
        => /\ Occurrences(gen.html, <<"<", "u", "l", ">">>) = Occurrences(gen.html, <<"<", "/", "u", "l", ">">>)
           /\ Occurrences(gen.html, <<"<", "o", "l", ">">>) = Occurrences(gen.html, <<"<", "/", "o", "l", ">">>)

\* C13: with the default options nothing of the first skip-section heading
\* or of a block after it is in the output (closing an open list apart).
C13_NothingPastSkipHeading ==
    (gen.pc = "returned" /\ gen.opts = DefaultOptions)
        => \A k \in 1..Len(gen.out) :
              gen.out[k].src >= FirstSkip(gen) => gen.out[k].kind \in {"/ul", "/ol"}

\* a maximal run a..b of blocks of type t in the rendered part is one list
\* element: its opening, one <li> per block, its closing
OneListPerRun(g, t, open, close) ==
    LET body == BodyOut(g)
        stop == FirstSkip(g)
    IN  \A a \in 1..(stop - 1) : \A b \in a..(stop - 1) :
           ( /\ \A m \in a..b : g.blocks[m].type = t
             /\ (a = 1 \/ g.blocks[a - 1].type # t)
             /\ (b = Len(g.blocks) \/ g.blocks[b + 1].type # t) )
           => /\ \E j \in 1..Len(body) :
                    /\ j + (b - a) + 2 <= Len(body)
                    /\ body[j] = [kind |-> open, src |-> a]
                    /\ \A m \in a..b : body[j + 1 + (m - a)] = [kind |-> "li", src |-> m]
                    /\ body[j + (b - a) + 2] = [kind |-> close, src |-> b + 1]
              /\ Cardinality({j \in 1..Len(body) :
                                 body[j].kind = open /\ body[j].src \in a..b}) = 1

\* C19: a maximal run of adjacent bulleted (numbered) items is exactly one
\* <ul> (<ol>) element with one <li> per item, and whatever is emitted for a
\* block of another type comes after the open list has been closed.
C19_ListGrouping ==
    gen.pc = "returned"
        => /\ OneListPerRun(gen, "bulleted_list_item", "ul", "/ul")
           /\ OneListPerRun(gen, "numbered_list_item", "ol", "/ol")
           /\ ~gen.inBulletedList /\ ~gen.inNumberedList
           /\ LET body == BodyOut(gen)
              IN  \A j \in 1..Len(body) :
                     body[j].kind \notin {"ul", "/ul", "ol", "/ol", "li"}
                     => Cardinality({m \in 1..(j - 1) : body[m].kind \in {"ul", "ol"}})
                          = Cardinality({m \in 1..(j - 1) : body[m].kind \in {"/ul", "/ol"}})

C19_Witness ==
    /\ gen.pc = "returned"
    /\ Len(gen.blocks) = 3
    /\ gen.blocks[1].type = "bulleted_list_item"
    /\ gen.blocks[2].type = "bulleted_list_item"
    /\ gen.blocks[3] = Block("paragraph", <<>>, <<>>, <<>>)
    /\ gen.out = << [kind |-> "ul", src |-> 1], [kind |-> "li", src |-> 1],
                    [kind |-> "li", src |-> 2], [kind |-> "/ul", src |-> 3] >>
    /\ gen.html = <<"<", "u", "l", ">", "\n", " ", " ", "<", "l", "i", ">", "B", "1", "<", "/", "l", "i", ">", "\n", " ", " ", "<", "l", "i", ">", "B", "1", "<", "/", "l", "i", ">", "\n", "<", "/", "u", "l", ">", "\n">>

\* C20: the link block after an image with a URL is consumed: the image is
\* wrapped in an anchor to the link's URL, nothing is emitted for the link
\* block and the scan goes on after it; any other block after an image is
\* rendered as usual and the image is a plain <img>.
C20_VideoThumbnailLookahead ==
    gen.pc = "returned"
        => \A j \in 1..(FirstSkip(gen) - 1) :
              LET b == gen.blocks[j]
                  at == {k \in 1..Len(gen.out) : gen.out[k].src = j
                                                 /\ gen.out[k].kind # "toc-li"}
              IN  /\ Consumed(gen, j)
                     => /\ at = {}
                        /\ \E k \in 1..Len(gen.out) :
                              gen.out[k] = [kind |-> "video-thumb", src |-> j - 1]
                        /\ includes(gen.html,
                                    <<"<", "a", " ", "h", "r", "e", "f", "=", "\"">> \o detectVideoLink(gen.blocks, j) \o <<"\"", " ", "t", "a", "r", "g", "e", "t", "=">>)
                  /\ (~Consumed(gen, j) /\ b.type = "paragraph" /\ Len(getRichText(b.rich_text)) > 0)
                     => \E k \in at : gen.out[k].kind = "p"
                  /\ (~Consumed(gen, j) /\ b.type \in ListTypes)
                     => \E k \in at : gen.out[k].kind = "li"
                  /\ (b.type = "image" /\ Len(b.url) > 0 /\ ~Consumed(gen, j + 1))
                     => /\ \E k \in at : gen.out[k].kind = "img"
                        /\ \A k \in at : gen.out[k].kind # "video-thumb"

C20_Witness ==
    /\ gen.pc = "returned"
    /\ Len(gen.blocks) = 3
    /\ gen.blocks[1].type = "image"
    /\ gen.blocks[2].type = "paragraph"
    /\ gen.blocks[3].type = "paragraph"
    /\ Consumed(gen, 2)
    /\ gen.out = << [kind |-> "video-thumb", src |-> 1], [kind |-> "video-caption", src |-> 1],
                    [kind |-> "p", src |-> 3] >>

(***************************************************************************)
(* review-newsletter: parseInlineMarkdown                                  *)
(***************************************************************************)
Min(set) == CHOOSE x \in set : \A y \in set : x <= y

\* position of the first c in text at or after from (0: none)
firstAt(text, c, from) ==
    LET ks == {k \in from..Len(text) : text[k] = c}
    IN  IF ks = {} THEN 0 ELSE Min(ks)

\* the characters a..b are matched by "." of a regular expression
noLineBreak(text, a, b) == \A k \in a..b : text[k] \notin {"\n", "\r"}

\* a capture group that took no part in the match
Undefined == <<"undefined">>

\* a truthy capture group
Captured(group) == group # Undefined /\ Len(group) > 0

\* d(.+?)d at position p: the position of the last character of the match
\* (0: no match)
lazyDelimited(text, p, d) ==
    IF ~(p + Len(d) - 1 <= Len(text) /\ SubSeq(text, p, p + Len(d) - 1) = d) THEN 0
    ELSE LET es == {e \in (p + Len(d) + 1)..(Len(text) - Len(d) + 1) :
                       /\ SubSeq(text, e, e + Len(d) - 1) = d
                       /\ noLineBreak(text, p + Len(d), e - 1)}
         IN  IF es = {} THEN 0 ELSE Min(es) + Len(d) - 1

\* \[(.+?)\]\((.+?)\) at position p: the positions of "]" and of the final ")"
\* (<<0, 0>>: no match)
lazyLink(text, p) ==
    IF ~(p <= Len(text) /\ text[p] = "[") THEN <<0, 0>>
    ELSE LET ends(c) == {e \in (c + 3)..Len(text) :
                           text[e] = ")" /\ noLineBreak(text, c + 2, e - 1)}
             cs == {c \in (p + 2)..(Len(text) - 1) :
                       /\ text[c] = "]" /\ text[c + 1] = "("
                       /\ noLineBreak(text, p + 1, c - 1)
                       /\ ends(c) # {}}
         IN  IF cs = {} THEN <<0, 0>> ELSE <<Min(cs), Min(ends(Min(cs)))>>

NoMatch ==
    [index |-> 0, end |-> 0, m2 |-> Undefined, m3 |-> Undefined, m4 |-> Undefined,
     m5 |-> Undefined, m6 |-> Undefined, m7 |-> Undefined]

\* the pattern of line 85 tried at position p, alternatives in their order
matchAt(text, p) ==
    LET bold == lazyDelimited(text, p, <<"*", "*">>)
        italic == lazyDelimited(text, p, <<"*">>)
        code == lazyDelimited(text, p, <<GraveAccent>>)
        link == lazyLink(text, p)
    IN  IF bold > 0
        THEN [NoMatch EXCEPT !.index = p, !.end = bold, !.m2 = SubSeq(text, p + 2, bold - 2)]
        ELSE IF italic > 0
        THEN [NoMatch EXCEPT !.index = p, !.end = italic, !.m3 = SubSeq(text, p + 1, italic - 1)]
        ELSE IF code > 0
        THEN [NoMatch EXCEPT !.index = p, !.end = code, !.m4 = SubSeq(text, p + 1, code - 1)]
        ELSE IF link[2] > 0
        THEN [NoMatch EXCEPT !.index = p, !.end = link[2],
                             !.m5 = SubSeq(text, p + 1, link[1] - 1),
                             !.m6 = SubSeq(text, link[1] + 2, link[2] - 1)]
        ELSE NoMatch

\* pattern.exec(text) with pattern.lastIndex = lastIndex: the leftmost match
exec(text, lastIndex) ==
    LET ps == {p \in (lastIndex + 1)..Len(text) : matchAt(text, p).index # 0}
    IN  IF ps = {} THEN NoMatch ELSE matchAt(text, Min(ps))

\* { type: 'text', text: { content, link: { url } }, annotations }, written
\* with the field names of the rich_text items that are read back
TextRun(content, annotations, url) == RichTextItem(content, annotations, url)

\* lines 92-100: the plain text between the last match and this one
pushPlainBefore(text, lastIndex, richText, m) ==
    IF m.index - 1 > lastIndex
    THEN Append(richText, TextRun(SubSeq(text, lastIndex + 1, m.index - 1), {}, <<>>))
    ELSE richText

\* lines 102-131: the run of the match, chosen by the ends of fullMatch
pushMatch(richText, fullMatch, m) ==
    IF startsWith(fullMatch, <<"*", "*">>) /\ endsWith(fullMatch, <<"*", "*">>)
    THEN Append(richText, TextRun(m.m2, {"bold"}, <<>>))
    ELSE IF /\ startsWith(fullMatch, <<"*">>) /\ endsWith(fullMatch, <<"*">>)
            /\ ~startsWith(fullMatch, <<"*", "*">>)
    THEN Append(richText, TextRun(m.m3, {"italic"}, <<>>))
    ELSE IF startsWith(fullMatch, <<GraveAccent>>) /\ endsWith(fullMatch, <<GraveAccent>>)
    THEN Append(richText, TextRun(m.m4, {"code"}, <<>>))
    ELSE IF startsWith(fullMatch, <<"[">>)
    THEN Append(richText, TextRun(m.m5, {}, m.m6))
    ELSE richText

RECURSIVE parseLoop(_, _, _)
RECURSIVE parseMatch(_, _, _, _)
\* the body of the while loop of lines 90-134 for the match m (index 0: the
\* loop ends); gives lastIndex and richText after the loop
parseMatch(text, lastIndex, richText, m) ==
    IF m.index = 0 THEN [lastIndex |-> lastIndex, richText |-> richText]
    ELSE parseLoop(text, m.end,
                   pushMatch(pushPlainBefore(text, lastIndex, richText, m),
                             SubSeq(text, m.index, m.end), m))

\* the while loop of lines 90-134
parseLoop(text, lastIndex, richText) ==
    parseMatch(text, lastIndex, richText, exec(text, lastIndex))

\* lines 136-153: the remaining text, and the whole text if nothing was pushed
finishParse(text, after) ==
    IF after.lastIndex < Len(text)
    THEN Append(after.richText,
                TextRun(SubSeq(text, after.lastIndex + 1, Len(text)), {}, <<>>))
    ELSE IF Len(after.richText) = 0 THEN << TextRun(text, {}, <<>>) >>
    ELSE after.richText

parseInlineMarkdown(text) == finishParse(text, parseLoop(text, 0, <<>>))

(***************************************************************************)
(* getRichText followed by parseInlineMarkdown                             *)
(***************************************************************************)
\* number of inline runs of a text
MaxRuns == 2

RunTexts == { <<"a", "b">>, <<"c">>, <<"*", "x", "*">> }

\* runs with at most one annotation among bold, italic, code, link
RunValues ==
    {RichTextItem(t, a, <<>>) : t \in RunTexts, a \in {{}, {"bold"}, {"italic"}, {"code"}}}
        \cup {RichTextItem(t, {}, <<"u", ".", "i", "o">>) : t \in RunTexts}

InitInline ==
    /\ HandlerOff
    /\ fetch = LibOff
    /\ cli = LibOff
    /\ gen = LibOff
    /\ inl \in {[pc |-> "start", runs |-> runs, html |-> <<>>, parsed |-> <<>>] :
                   runs \in SeqsUpTo(RunValues, MaxRuns)}
    /\ md = LibOff

\* html = getRichText(runs)
RenderInline ==
    /\ inl.pc = "start"
    /\ inl' = [inl EXCEPT !.pc = "rendered", !.html = getRichText(inl.runs)]
    /\ UNCHANGED <<handlerVars, gen, md, fetch, cli>>

\* parsed = parseInlineMarkdown(html)
ParseInline ==
    /\ inl.pc = "rendered"
    /\ inl' = [inl EXCEPT !.pc = "parsed", !.parsed = parseInlineMarkdown(inl.html)]
    /\ UNCHANGED <<handlerVars, gen, md, fetch, cli>>

NextInline == RenderInline \/ ParseInline

SpecInline == InitInline /\ [][NextInline]_vars

\* no text or URL of the runs has a character that starts a markdown span
DelimiterFree(runs) ==
    \A k \in 1..Len(runs) :
        \A c \in Range(runs[k].plain_text) \cup Range(runs[k].href) :
            c \notin {"*", "[", GraveAccent}

\* C14 as stated: parsing the rendered runs gives the runs back.
C14_RoundTrip ==
    inl.pc = "parsed" => inl.parsed = inl.runs

\* C14: getRichText renders HTML tags, which parseInlineMarkdown does not
\* read: for runs whose texts and URLs have no "*", "[" or grave accent the
\* parse of the rendered text is one unannotated run holding the whole HTML
\* string, so the runs come back only if they are one unannotated run.
C14_ParseOfRenderedIsOnePlainRun ==
    (inl.pc = "parsed" /\ DelimiterFree(inl.runs))
        => /\ inl.parsed = << RichTextItem(inl.html, {}, <<>>) >>
           /\ (inl.parsed = inl.runs)
                 <=> ( /\ Len(inl.runs) = 1
                       /\ inl.runs[1].annotations = {}
                       /\ inl.runs[1].href = <<>> )

C14_Witness ==
    /\ inl.pc = "parsed"
    /\ inl.runs = << RichTextItem(<<"a", "b">>, {"bold"}, <<>>), RichTextItem(<<"c">>, {}, <<"u", ".", "i", "o">>) >>
    /\ inl.html = <<"<", "s", "t", "r", "o", "n", "g", ">", "a", "b", "<", "/", "s", "t", "r", "o", "n", "g", ">", "<", "a", " ", "h", "r", "e", "f", "=", "\"", "u", ".", "i", "o", "\"", ">", "c", "<", "/", "a", ">">>
    /\ inl.parsed = << RichTextItem(<<"<", "s", "t", "r", "o", "n", "g", ">", "a", "b", "<", "/", "s", "t", "r", "o", "n", "g", ">", "<", "a", " ", "h", "r", "e", "f", "=", "\"", "u", ".", "i", "o", "\"", ">", "c", "<", "/", "a", ">">>, {}, <<>>) >>

(***************************************************************************)
(* newsletter/draft.ts: parseInlineMarkdown (bold, italic, links, images)  *)
(***************************************************************************)
\* the pattern of draft.ts line 479 tried at position p
draftMatchAt(text, p) ==
    LET bold == lazyDelimited(text, p, <<"*", "*">>)
        star == IF p <= Len(text) /\ text[p] = "*" THEN firstAt(text, "*", p + 1) ELSE 0
        close == IF p <= Len(text) /\ text[p] = "[" THEN firstAt(text, "]", p + 1) ELSE 0
        paren == IF close >= p + 2 /\ close < Len(text) /\ text[close + 1] = "("
                 THEN firstAt(text, ")", close + 2) ELSE 0
        iclose == IF p < Len(text) /\ text[p] = "!" /\ text[p + 1] = "["
                  THEN firstAt(text, "]", p + 2) ELSE 0
        iparen == IF iclose > 0 /\ iclose < Len(text) /\ text[iclose + 1] = "("
                  THEN firstAt(text, ")", iclose + 2) ELSE 0
    IN  IF bold > 0
        THEN [NoMatch EXCEPT !.index = p, !.end = bold, !.m2 = SubSeq(text, p + 2, bold - 2)]
        ELSE IF star >= p + 2
        THEN [NoMatch EXCEPT !.index = p, !.end = star, !.m3 = SubSeq(text, p + 1, star - 1)]
        ELSE IF paren >= close + 3
        THEN [NoMatch EXCEPT !.index = p, !.end = paren,
                             !.m4 = SubSeq(text, p + 1, close - 1),
                             !.m5 = SubSeq(text, close + 2, paren - 1)]
        ELSE IF iclose > 0 /\ iparen >= iclose + 3
        THEN [NoMatch EXCEPT !.index = p, !.end = iparen,
                             !.m6 = SubSeq(text, p + 2, iclose - 1),
                             !.m7 = SubSeq(text, iclose + 2, iparen - 1)]
        ELSE NoMatch

draftExec(text, lastIndex) ==
    LET ps == {p \in (lastIndex + 1)..Len(text) : draftMatchAt(text, p).index # 0}
    IN  IF ps = {} THEN NoMatch ELSE draftMatchAt(text, Min(ps))

\* draft.ts lines 493-519: the run of the match, chosen by its groups
draftPushMatch(richText, m) ==
    IF Captured(m.m2) THEN Append(richText, TextRun(m.m2, {"bold"}, <<>>))
    ELSE IF Captured(m.m3) THEN Append(richText, TextRun(m.m3, {"italic"}, <<>>))
    ELSE IF Captured(m.m4) /\ Captured(m.m5) THEN Append(richText, TextRun(m.m4, {}, m.m5))
    ELSE IF m.m6 # Undefined /\ Captured(m.m7)
    THEN Append(richText, TextRun(IF Len(m.m6) > 0 THEN m.m6 ELSE <<"I", "m", "a", "g", "e">>, {}, m.m7))
    ELSE richText

RECURSIVE draftParseLoop(_, _, _)
RECURSIVE draftParseMatch(_, _, _, _)
\* the body of the while loop of draft.ts lines 484-522 for the match m
draftParseMatch(text, lastIndex, richText, m) ==
    IF m.index = 0 THEN [lastIndex |-> lastIndex, richText |-> richText]
    ELSE draftParseLoop(text, m.end,
                        draftPushMatch(pushPlainBefore(text, lastIndex, richText, m), m))

\* the while loop of draft.ts lines 484-522
draftParseLoop(text, lastIndex, richText) ==
    draftParseMatch(text, lastIndex, richText, draftExec(text, lastIndex))

\* parseInlineMarkdown of draft.ts
draftParseInlineMarkdown(text) == finishParse(text, draftParseLoop(text, 0, <<>>))

(***************************************************************************)
(* Markdown to blocks: updatePageContent (review-newsletter) and           *)
(* convertMarkdownToBlocks (newsletter/draft.ts)                           *)
(***************************************************************************)
\* the positions of c in text
positionsOf(text, c) == {k \in 1..Len(text) : text[k] = c}

\* the element of a non-empty set of numbers with as many smaller as not
median(S) == CHOOSE p \in S : Cardinality({q \in S : q < p}) = Cardinality(S) \div 2

RECURSIVE split(_)
\* markdown.split('\n'): the pieces before and after each line feed
split(text) ==
    IF positionsOf(text, "\n") = {} THEN <<text>>
    ELSE split(SubSeq(text, 1, median(positionsOf(text, "\n")) - 1))
            \o split(SubSeq(text, median(positionsOf(text, "\n")) + 1, Len(text)))

\* String.prototype.slice(n)
slice(s, n) == SubSeq(s, n + 1, Len(s))

\* length of the match of /^\d+\.\s/ (0: no match)
numberedPrefix(line) ==
    LET ds == {n \in 1..Len(line) : \A k \in 1..n : line[k] \in Range(DecimalDigits)}
        n == IF ds = {} THEN 0 ELSE CHOOSE x \in ds : \A y \in ds : y <= x
    IN  IF n > 0 /\ n + 2 <= Len(line) /\ line[n + 1] = "." /\ line[n + 2] \in WhiteSpace
        THEN n + 2 ELSE 0

\* a block to create; line is the position of the input line it was made from
NewBlock(type, richText, url, line) ==
    [type |-> type, rich_text |-> richText, url |-> url, line |-> line]

\* the if-chain of updatePageContent (lines 166-249) for line k: the blocks pushed
updateLineBlocks(line, k) ==
    IF Len(trim(line)) = 0 THEN <<>>
    ELSE IF startsWith(line, <<"#", "#", "#", "#", " ">>)
    THEN << NewBlock("heading_3", parseInlineMarkdown(slice(line, 5)), <<>>, k) >>
    ELSE IF startsWith(line, <<"#", "#", "#", " ">>)
    THEN << NewBlock("heading_3", parseInlineMarkdown(slice(line, 4)), <<>>, k) >>
    ELSE IF startsWith(line, <<"#", "#", " ">>)
    THEN << NewBlock("heading_2", parseInlineMarkdown(slice(line, 3)), <<>>, k) >>
    ELSE IF startsWith(line, <<"#", " ">>)
    THEN << NewBlock("heading_1", parseInlineMarkdown(slice(line, 2)), <<>>, k) >>
    ELSE IF startsWith(line, <<"-", " ">>) \/ startsWith(line, <<"*", " ">>)
    THEN << NewBlock("bulleted_list_item", parseInlineMarkdown(slice(line, 2)), <<>>, k) >>
    ELSE IF numberedPrefix(line) > 0
    THEN << NewBlock("numbered_list_item",
                     parseInlineMarkdown(slice(line, numberedPrefix(line))), <<>>, k) >>
    ELSE IF startsWith(line, <<">", " ">>)
    THEN << NewBlock("quote", parseInlineMarkdown(slice(line, 2)), <<>>, k) >>
    ELSE IF trim(line) = <<"-", "-", "-">>
    THEN << NewBlock("divider", <<>>, <<>>, k) >>
    ELSE << NewBlock("paragraph", parseInlineMarkdown(line), <<>>, k) >>

\* the blocks updatePageContent builds from the markdown (lines 162-250)
updatePageContentBlocks(markdown) ==
    LET lines == split(markdown)
    IN  join([k \in 1..Len(lines) |-> updateLineBlocks(lines[k], k)])

\* the URL of a standalone image line, /^!\[([^\]]*)\]\(([^)]+)\)$/ on the
\* trimmed line (Undefined: no match)
imgMatch(line) ==
    LET t == trim(line)
        close == IF Len(t) >= 2 /\ t[1] = "!" /\ t[2] = "[" THEN firstAt(t, "]", 3) ELSE 0
        paren == IF close > 0 /\ close < Len(t) /\ t[close + 1] = "("
                 THEN firstAt(t, ")", close + 2) ELSE 0
    IN  IF paren >= close + 3 /\ close > 0 /\ paren = Len(t)
        THEN SubSeq(t, close + 2, paren - 1)
        ELSE Undefined

\* the label of /^<h4>(.+?)<\/h4>$/ (Undefined: no match)
h4Match(line) ==
    IF /\ Len(line) >= 10 /\ startsWith(line, <<"<", "h", "4", ">">>) /\ endsWith(line, <<"<", "/", "h", "4", ">">>)
       /\ noLineBreak(line, 5, Len(line) - 5)
    THEN SubSeq(line, 5, Len(line) - 5)
    ELSE Undefined

\* lines 575-659 of convertMarkdownToBlocks for line k outside an HTML block
convertLineBlocks(line, k) ==
    IF Len(trim(line)) = 0 THEN <<>>
    ELSE IF imgMatch(line) # Undefined
    THEN IF startsWith(imgMatch(line), <<"h", "t", "t", "p">>)
         THEN << NewBlock("image", <<>>, imgMatch(line), k) >>
         ELSE <<>>
    ELSE IF h4Match(line) # Undefined
    THEN << NewBlock("heading_3", << TextRun(h4Match(line), {}, <<>>) >>, <<>>, k) >>
    ELSE IF startsWith(line, <<"#", "#", "#", "#", " ">>)
    THEN << NewBlock("heading_3", draftParseInlineMarkdown(slice(line, 5)), <<>>, k) >>
    ELSE IF startsWith(line, <<"#", "#", "#", " ">>)
    THEN << NewBlock("heading_3", draftParseInlineMarkdown(slice(line, 4)), <<>>, k) >>
    ELSE IF startsWith(line, <<"#", "#", " ">>)
    THEN << NewBlock("heading_2", draftParseInlineMarkdown(slice(line, 3)), <<>>, k) >>
    ELSE IF startsWith(line, <<"#", " ">>)
    THEN << NewBlock("heading_1", draftParseInlineMarkdown(slice(line, 2)), <<>>, k) >>
    ELSE IF startsWith(line, <<"-", " ">>) \/ startsWith(line, <<"*", " ">>)
    THEN << NewBlock("bulleted_list_item", draftParseInlineMarkdown(slice(line, 2)), <<>>, k) >>
    ELSE IF startsWith(line, <<">", " ">>)
    THEN << NewBlock("quote", draftParseInlineMarkdown(slice(line, 2)), <<>>, k) >>
    ELSE IF trim(line) = <<"-", "-", "-">>
    THEN << NewBlock("divider", <<>>, <<>>, k) >>
    ELSE << NewBlock("paragraph", draftParseInlineMarkdown(line), <<>>, k) >>

\* the placeholder pushed at the end of a table (draft.ts lines 559-569)
tablePlaceholder(k) ==
    NewBlock("callout", << TextRun(<<"R", "o", "a", "d", "m", "a", "p", " ", "t", "a", "b", "l", "e", " ", "-", " ", "r", "e", "n", "d", "e", "r", "s", " ", "i", "n", " ", "e", "m", "a", "i", "l", " ", "p", "r", "e", "v", "i", "e", "w">>, {}, <<>>) >>,
             <<>>, k)

RECURSIVE convertLoop(_, _, _, _)
\* the for loop of convertMarkdownToBlocks from line k on
convertLoop(lines, k, inHtmlBlock, blocks) ==
    IF k > Len(lines) THEN blocks
    ELSE IF startsWith(trim(lines[k]), <<"<", "t", "a", "b", "l", "e">>) \/ inHtmlBlock
    THEN IF includes(lines[k], <<"<", "/", "t", "a", "b", "l", "e", ">">>)
         THEN convertLoop(lines, k + 1, FALSE, Append(blocks, tablePlaceholder(k)))
         ELSE convertLoop(lines, k + 1, TRUE, blocks)
    ELSE convertLoop(lines, k + 1, FALSE, blocks \o convertLineBlocks(lines[k], k))

\* a converter that handles every line on its own
convertMarkdownToBlocks_LineByLine(markdown) == updatePageContentBlocks(markdown)

convertMarkdownToBlocks(markdown) == convertLoop(split(markdown), 1, FALSE, <<>>)

\* number of lines of a markdown text
MaxLines == 3

LineValues ==
    { <<"#", " ", "A">>, <<"-", " ", "b">>, <<"1", ".", " ", "c">>, <<"t">>, <<>>, <<" ">>, <<"-", "-", "-">>, <<"*", "*", "b", "*", "*">>,
      <<"<", "t", "a", "b", "l", "e", ">">>, <<"<", "/", "t", "a", "b", "l", "e", ">">>, <<"!", "[", "i", "]", "(", "/", "x", ")">>, <<"!", "[", "i", "]", "(", "h", "t", "t", "p", ":", "x", ")">> }

RECURSIVE joinLines(_)
\* the lines joined with '\n'
joinLines(lines) ==
    IF Len(lines) = 0 THEN <<>>
    ELSE IF Len(lines) = 1 THEN lines[1]
    ELSE lines[1] \o <<"\n">> \o joinLines(Tail(lines))

\* the blocks of the page before updatePageContent
OldPages == { <<>>, << NewBlock("paragraph", << TextRun(<<"o", "l", "d">>, {}, <<>>) >>, <<>>, 0) >> }

InitMd ==
    /\ HandlerOff
    /\ fetch = LibOff
    /\ cli = LibOff
    /\ gen = LibOff
    /\ inl = LibOff
    /\ md \in {[pc |-> "start", markdown |-> joinLines(lines), page |-> page,
                by |-> "none", blocks |-> <<>>] :
                  lines \in SeqsUpTo(LineValues, MaxLines) \ {<<>>}, page \in OldPages}

\* updatePageContent: build the blocks, delete the page's blocks (a delete
\* that fails is skipped), append the new blocks
UpdatePageContent ==
    /\ md.pc = "start"
    /\ \E deletable \in BOOLEAN :
          LET blocks == updatePageContentBlocks(md.markdown)
              kept == IF deletable THEN <<>> ELSE md.page
          IN  md' = [md EXCEPT !.pc = "converted", !.by = "updatePageContent",
                               !.blocks = blocks, !.page = kept \o blocks]
    /\ UNCHANGED <<handlerVars, gen, inl, fetch, cli>>

\* convertMarkdownToBlocks returns the blocks
ConvertMarkdownToBlocks ==
    /\ md.pc = "start"
    /\ md' = [md EXCEPT !.pc = "converted", !.by = "convertMarkdownToBlocks",
                        !.blocks = convertMarkdownToBlocks(md.markdown)]
    /\ UNCHANGED <<handlerVars, gen, inl, fetch, cli>>

NextMd == UpdatePageContent \/ ConvertMarkdownToBlocks

SpecMd == InitMd /\ [][NextMd]_vars

\* the positions of the non-blank lines
NonBlank(lines) ==
    {k \in 1..Len(lines) : \E c \in Range(lines[k]) : c \notin WhiteSpace}

\* the blocks are one per line of the set, in the order of the lines
OnePerLine(blocks, set) ==
    /\ Len(blocks) = Cardinality(set)
    /\ {blocks[j].line : j \in 1..Len(blocks)} = set
    /\ \A j \in 1..(Len(blocks) - 1) : blocks[j].line < blocks[j + 1].line

\* line k is inside an HTML table span (from a line starting with <table up
\* to the first line with </table>)
InTable(lines, k) ==
    \E a \in 1..k :
        /\ startsWith(trim(lines[a]), <<"<", "t", "a", "b", "l", "e">>)
        /\ \A m \in a..(k - 1) : ~includes(lines[m], <<"<", "/", "t", "a", "b", "l", "e", ">">>)

\* C15 as stated: one block per non-blank line, none for a blank line, in
\* line order, for both converters and every input.
C15_OneBlockPerNonBlankLine ==
    md.pc = "converted" => OnePerLine(md.blocks, NonBlank(split(md.markdown)))

\* C15: updatePageContent makes one block per non-blank line, in line order.
\* convertMarkdownToBlocks does so outside HTML tables and standalone image
\* lines: a <table> ... </table> span gives one callout block made at its
\* closing line (none if the span is not closed, blank lines in it included),
\* and a standalone image line gives an image block only for an http URL.
C15_OneBlockPerLineExceptTablesAndImages ==
    md.pc = "converted"
        => LET lines == split(md.markdown)
               tableEnds == {k \in 1..Len(lines) :
                               InTable(lines, k) /\ includes(lines[k], <<"<", "/", "t", "a", "b", "l", "e", ">">>)}
               plain == {k \in NonBlank(lines) :
                           /\ ~InTable(lines, k)
                           /\ ~( /\ imgMatch(lines[k]) # Undefined
                                 /\ ~startsWith(imgMatch(lines[k]), <<"h", "t", "t", "p">>) )}
           IN  IF md.by = "updatePageContent"
               THEN OnePerLine(md.blocks, NonBlank(lines))
               ELSE /\ OnePerLine(md.blocks, tableEnds \cup plain)
                    /\ \A j \in 1..Len(md.blocks) :
                          md.blocks[j].type = "callout" <=> md.blocks[j].line \in tableEnds

C15_Witness ==
    /\ md.pc = "converted"
    /\ md.by = "convertMarkdownToBlocks"
    /\ md.markdown = <<"<", "t", "a", "b", "l", "e", ">", "\n", "!", "[", "i", "]", "(", "/", "x", ")", "\n", "<", "/", "t", "a", "b", "l", "e", ">">>
    /\ Len(md.blocks) = 1
    /\ md.blocks[1].type = "callout"
    /\ md.blocks[1].line = 3

(***************************************************************************)
(* Further properties of generateContentHtml                               *)
(***************************************************************************)
\* the last character of s that is not white space ("": none)
LastVisible(s) ==
    LET ks == {k \in 1..Len(s) : s[k] \notin WhiteSpace}
    IN  IF ks = {} THEN "" ELSE s[CHOOSE k \in ks : \A m \in ks : m <= k]

\* C21: every rendered heading_3 block gives exactly one tag: <h4> when its
\* plain text, white space at the ends apart, ends with a colon, <h3> otherwise.
C21_HeadingLabelDispatch ==
    gen.pc = "returned"
        => \A j \in 1..(FirstSkip(gen) - 1) :
              gen.blocks[j].type = "heading_3"
              => LET text == getPlainText(gen.blocks[j].rich_text)
                     at == {k \in 1..Len(gen.out) : /\ gen.out[k].src = j
                                                    /\ gen.out[k].kind \in {"h3", "h4"}}
                     tag == IF LastVisible(text) = ":" THEN <<"h", "4">> ELSE <<"h", "3">>
                 IN  /\ Cardinality(at) = 1
                     /\ \A k \in at : gen.out[k].kind = (IF LastVisible(text) = ":" THEN "h4" ELSE "h3")
                     /\ includes(gen.html, <<"<">> \o tag \o <<">">> \o text \o <<"<", "/">> \o tag \o <<">", "\n">>)

C21_Witness ==
    /\ gen.pc = "returned"
    /\ gen.opts.includeToc
    /\ Len(gen.blocks) = 2
    /\ gen.html = <<"<", "h", "3", ">", "W", "h", "y", "<", "/", "h", "3", ">", "\n", "<", "h", "4", ">", "Q", ":", " ", "<", "/", "h", "4", ">", "\n">>

\* C26: the two list flags are never both true, and the list tags emitted so
\* far never leave two lists open: a list item of the other kind closes the
\* open list before its own list is opened.
C26_AtMostOneListOpen ==
    /\ gen.pc \in {"loop", "break", "returned"}
          => /\ ~(gen.inBulletedList /\ gen.inNumberedList)
             /\ \A n \in 0..Len(BodyOut(gen)) :
                   LET body == SubSeq(BodyOut(gen), 1, n)
                       count(kind) == Cardinality({k \in 1..n : body[k].kind = kind})
                   IN  /\ count("ul") - count("/ul") \in {0, 1}
                       /\ count("ol") - count("/ol") \in {0, 1}
                       /\ (count("ul") - count("/ul")) + (count("ol") - count("/ol")) <= 1
             /\ gen.inBulletedList
                   <=> Cardinality({k \in 1..Len(BodyOut(gen)) : BodyOut(gen)[k].kind = "ul"})
                         > Cardinality({k \in 1..Len(BodyOut(gen)) : BodyOut(gen)[k].kind = "/ul"})
             /\ gen.inNumberedList
                   <=> Cardinality({k \in 1..Len(BodyOut(gen)) : BodyOut(gen)[k].kind = "ol"})
                         > Cardinality({k \in 1..Len(BodyOut(gen)) : BodyOut(gen)[k].kind = "/ol"})

C26_Witness ==
    /\ gen.pc = "loop"
    /\ gen.i = 3
    /\ gen.blocks[1].type = "numbered_list_item"
    /\ gen.blocks[2].type = "bulleted_list_item"
    /\ gen.inBulletedList /\ ~gen.inNumberedList
    /\ gen.out = << [kind |-> "ol", src |-> 1], [kind |-> "li", src |-> 1],
                    [kind |-> "/ol", src |-> 2], [kind |-> "ul", src |-> 2],
                    [kind |-> "li", src |-> 2] >>

(***************************************************************************)
(* Further properties of the status-change handler                         *)
(***************************************************************************)
\* C27: with the email API configured, at every point of the loop sent is
\* the number of calls answered 2xx and failed the number of calls answered
\* non-2xx or ended by an exception; the returned tally has
\* sent + failed = number of recipients; no step of the loop decreases a
\* counter.
C27_TallyCountsEveryRecipient ==
    /\ [](\A p \in Procs :
            (run[p].dispatched /\ LoopsConfigured)
               => LET r == run[p]
                      ok == {i \in 1..Len(r.calls) : r.calls[i].outcome = "ok"}
                      ko == {i \in 1..Len(r.calls) :
                                r.calls[i].outcome \in {"non2xx", "throw"}}
                  IN  /\ r.sent = Cardinality(ok)
                      /\ r.failed = Cardinality(ko)
                      /\ r.pc = "done"
                           => /\ r.sent + r.failed = Len(r.recipients)
                              /\ r.resp.counts = <<r.sent, r.failed>>)
    /\ [][\A p \in Procs :
            (run[p].pc \in {"send", "pace"})
               => /\ run'[p].sent >= run[p].sent
                  /\ run'[p].failed >= run[p].failed
                  /\ run'[p].sent + run'[p].failed
                        <= run[p].sent + run[p].failed + 1]_vars

C27_Witness ==
    \E p \in Procs :
        /\ run[p].pc = "done"
        /\ run[p].dispatched /\ LoopsConfigured
        /\ Len(run[p].recipients) = 3
        /\ [i \in 1..3 |-> run[p].calls[i].outcome] = <<"non2xx", "ok", "throw">>
        /\ run[p].resp.counts = <<1, 2>>

\* the requests from whose body extractStatus returns null
NoStatusRequests == {req \in Requests : ~Truthy(extractStatus(req.body))}

\* the handler when every inbound request lacks a status
NextNoStatus ==
    \/ \E p \in Procs, req \in NoStatusRequests : Receive(p, req)
    \/ \E p \in Procs : CheckAlreadySent(p)
    \/ \E p \in Procs : FetchContent(p)
    \/ \E p \in Procs : GetAudience(p)
    \/ \E p \in Procs : QueryContacts(p)
    \/ \E p \in Procs, outcome \in CallOutcomes : SendOne(p, outcome)
    \/ \E p \in Procs : Pace(p)
    \/ \E p \in Procs : Return(p)
    \/ \E s \in StatusValues : EditorSetStatus(s)

SpecNoStatus == Init /\ [][NextNoStatus]_vars

MaxTokens == 3

ParseTokens == { <<"a">>, <<" ", "b">>, <<"*">>, <<"*", "*">>, <<GraveAccent>>, <<"[">>, <<"[", "a", "]", "(", "u", ")">> }

Example23 == <<"*", "*", "R", "e", "d", "u", "c", "e", "s", " ", "T", "A", "T", "*", "*", " ", "b", "y", " ", "*", "4", "0", "%", "*">>

ParseInputs == {join(ts) : ts \in SeqsUpTo(ParseTokens, MaxTokens)} \cup {Example23}

InitParse ==
    /\ HandlerOff
    /\ fetch = LibOff
    /\ cli = LibOff
    /\ gen = LibOff
    /\ inl \in {[pc |-> "text", text |-> t, review |-> <<>>, draft |-> <<>>] :
                   t \in ParseInputs}
    /\ md = LibOff

\* review = parseInlineMarkdown(text) of review-newsletter
ReviewParseInlineMarkdown ==
    /\ inl.pc = "text"
    /\ inl' = [inl EXCEPT !.pc = "review", !.review = parseInlineMarkdown(inl.text)]
    /\ UNCHANGED <<handlerVars, gen, md, fetch, cli>>

\* draft = parseInlineMarkdown(text) of newsletter/draft.ts
DraftParseInlineMarkdown ==
    /\ inl.pc = "review"
    /\ inl' = [inl EXCEPT !.pc = "draft", !.draft = draftParseInlineMarkdown(inl.text)]
    /\ UNCHANGED <<handlerVars, gen, md, fetch, cli>>

NextParse == ReviewParseInlineMarkdown \/ DraftParseInlineMarkdown

SpecParse == InitParse /\ [][NextParse]_vars

\* the piece of text a run was made from: a matched span with its
\* delimiters, or the text of an unannotated run
spanOf(r) ==
    IF r.href # <<>> THEN <<"[">> \o r.plain_text \o <<"]", "(">> \o r.href \o <<")">>
    ELSE IF r.annotations = {"bold"} THEN <<"*", "*">> \o r.plain_text \o <<"*", "*">>
    ELSE IF r.annotations = {"italic"} THEN <<"*">> \o r.plain_text \o <<"*">>
    ELSE IF r.annotations = {"code"} THEN <<GraveAccent>> \o r.plain_text \o <<GraveAccent>>
    ELSE r.plain_text

spansOf(runs) == join([k \in 1..Len(runs) |-> spanOf(runs[k])])

\* C23 as stated: each parser returns at least one run, and its runs are,
\* in order, the matched spans and the pieces of text outside them, so that
\* the spans of the runs put together are the text (text that matches no
\* balanced span comes back as literal text); the example gives
\* [bold("Reduces TAT"), plain(" by "), italic("40%")].
C23_RunsCoverTheText ==
    /\ inl.pc \in {"review", "draft"}
          => /\ Len(inl.review) >= 1
             /\ spansOf(inl.review) = inl.text
    /\ inl.pc = "draft"
          => /\ Len(inl.draft) >= 1
             /\ spansOf(inl.draft) = inl.text
             /\ inl.text = Example23
                  => /\ inl.review = << TextRun(<<"R", "e", "d", "u", "c", "e", "s", " ", "T", "A", "T">>, {"bold"}, <<>>),
                                        TextRun(<<" ", "b", "y", " ">>, {}, <<>>),
                                        TextRun(<<"4", "0", "%">>, {"italic"}, <<>>) >>
                     /\ inl.draft = inl.review

(***************************************************************************)
(* updatePageContent of review-newsletter against the page in the store    *)
(***************************************************************************)
\* page_size of the list call of clearPageContent
ClearPageSize == 100

\* children per append call
AppendBatchSize == 100

\* lines of the short markdown texts
MaxNewLines == 2

ReplaceLineValues == { <<"#", " ", "A">>, <<"t">>, <<>> }

\* the markdown of n lines "t"
LinesOfT(n) == [k \in 1..(2 * n - 1) |-> IF k % 2 = 1 THEN "t" ELSE "\n"]

ReplaceMarkdowns ==
    {joinLines(lines) : lines \in SeqsUpTo(ReplaceLineValues, MaxNewLines) \ {<<>>}}
        \cup {LinesOfT(AppendBatchSize), LinesOfT(AppendBatchSize + 1),
              LinesOfT(2 * AppendBatchSize + 1)}

\* the k-th block of the page before the call (line -k: not made from a line)
OldBlock(k) == NewBlock("paragraph", << TextRun(<<"o", "l", "d">>, {}, <<>>) >>, <<>>, 0 - k)

OldPageSizes == {0, 1, ClearPageSize, ClearPageSize + 1}

\* positions of the old blocks whose delete call fails
UndeletableSets == { {}, {1} }

InitReplace ==
    /\ HandlerOff
    /\ fetch = LibOff
    /\ cli = LibOff
    /\ gen = LibOff
    /\ inl = LibOff
    /\ md \in {[pc |-> "start", markdown |-> m, old |-> [k \in 1..n |-> OldBlock(k)],
                page |-> [k \in 1..n |-> OldBlock(k)], undeletable |-> u,
                blocks |-> <<>>, i |-> 0, ops |-> <<>>] :
                  m \in ReplaceMarkdowns, n \in OldPageSizes, u \in UndeletableSets}

\* blocks.children.list({ page_size: 100 }) without a cursor
listFirstPage(page) ==
    SubSeq(page, 1, IF Len(page) < ClearPageSize THEN Len(page) ELSE ClearPageSize)

\* the page after the delete loop over the listed blocks: the blocks that
\* were not listed and those whose delete failed stay
afterDeletes(page, listed, undeletable) ==
    SelectSeq(page, LAMBDA b : \/ \A j \in 1..Len(listed) : listed[j] # b
                               \/ (0 - b.line) \in undeletable)

\* updatePageContent up to the end of clearPageContent: the blocks are built,
\* the first page of children is listed and each listed block deleted; the
\* list call may throw
ClearPageContent ==
    /\ md.pc = "start"
    /\ \E listOk \in BOOLEAN :
          md' = IF ~listOk THEN [md EXCEPT !.pc = "threw", !.ops = Append(@, "list")]
                ELSE [md EXCEPT !.pc = "append",
                                !.blocks = updatePageContentBlocks(md.markdown),
                                !.page = afterDeletes(md.page, listFirstPage(md.page),
                                                      md.undeletable),
                                !.ops = Append(@, "list")
                                          \o [j \in 1..Len(listFirstPage(md.page))
                                                 |-> "delete"]]
    /\ UNCHANGED <<handlerVars, gen, inl, fetch, cli>>

\* blocks.slice(i, i + 100)
batchAt(blocks, i) ==
    SubSeq(blocks, i + 1,
           IF i + AppendBatchSize < Len(blocks) THEN i + AppendBatchSize ELSE Len(blocks))

\* one iteration of the append loop; the append call may throw
AppendBatch ==
    /\ md.pc = "append"
    /\ md.i < Len(md.blocks)
    /\ \E appendOk \in BOOLEAN :
          md' = IF ~appendOk THEN [md EXCEPT !.pc = "threw", !.ops = Append(@, "append")]
                ELSE [md EXCEPT !.page = @ \o batchAt(md.blocks, md.i),
                                !.i = @ + AppendBatchSize,
                                !.ops = Append(@, "append")]
    /\ UNCHANGED <<handlerVars, gen, inl, fetch, cli>>

\* the loop condition fails: updatePageContent resolves
UpdateReturn ==
    /\ md.pc = "append"
    /\ ~(md.i < Len(md.blocks))
    /\ md' = [md EXCEPT !.pc = "updated"]
    /\ UNCHANGED <<handlerVars, gen, inl, fetch, cli>>

NextReplace == ClearPageContent \/ AppendBatch \/ UpdateReturn

SpecReplace == InitReplace /\ [][NextReplace]_vars

\* C24 as stated: when updatePageContent has completed without throwing the
\* page holds exactly the blocks parsed from the markdown, in order, and no
\* block of the page before the call; the blocks went in batches of at most
\* 100, and every append came after the last delete.
C24_WholeBodyReplaced ==
    /\ md.pc = "updated"
          => /\ md.page = updatePageContentBlocks(md.markdown)
             /\ \A k \in 1..Len(md.old) :
                   \A j \in 1..Len(md.page) : md.page[j] # md.old[k]
    /\ \A a \in 1..Len(md.ops) : \A b \in 1..Len(md.ops) :
          (md.ops[a] = "append" /\ md.ops[b] \in {"list", "delete"}) => b < a

(***************************************************************************)
(* fetchNewsletterContent of the webhook: page, block children, HTML with  *)
(* images rehosted by uploadImageToSupabase                                *)
(***************************************************************************)
\* page_size of the list call of fetchNewsletterContent
ContentPageSize == 100

\* blocks of the short documents
MaxDocBlocks == 2

ContentBlockValues ==
    { Block("paragraph", PlainRichText(<<"H", "i">>), <<>>, <<>>),
      Block("image", <<>>, <<"i", ".", "p", "n", "g">>, <<>>),
      Block("image", <<>>, <<"j", ".", "p", "n", "g">>, PlainRichText(<<"c", "a", "p">>)) }

\* a document of n blocks: paragraphs, the last block an image
LongDocument(n) ==
    [k \in 1..n |-> IF k = n THEN Block("image", <<>>, <<"i", ".", "p", "n", "g">>, <<>>)
                    ELSE Block("paragraph", PlainRichText(<<"H", "i">>), <<>>, <<>>)]

Documents ==
    SeqsUpTo(ContentBlockValues, MaxDocBlocks)
        \cup {LongDocument(ContentPageSize), LongDocument(ContentPageSize + 1)}

\* how a call of uploadImageToSupabase goes once Supabase is configured
UploadCourses == {"download throws", "download not ok", "upload error", "upload throws", "ok"}

PublicUrl == <<"c", "d", "n", "/", "i", ".", "p", "n", "g">>

\* uploadImageToSupabase that hands out the public URL whatever the upload said
uploadImageToSupabase_IgnoreError(configured, course) ==
    IF ~configured THEN <<>> ELSE PublicUrl

\* uploadImageToSupabase: null (the empty URL) unless configured and every
\* step succeeded; exceptions inside are caught and give null
uploadImageToSupabase(configured, course) ==
    IF ~configured THEN <<>>
    ELSE IF course = "ok" THEN PublicUrl
    ELSE <<>>

\* the options fetchNewsletterContent passes to generateContentHtml
ContentOptions ==
    [includeToc |-> TRUE, uploadImage |-> TRUE, pageId |-> <<"p", "1">>,
     skipSections |-> DEFAULT_SKIP_SECTIONS]

InitContent ==
    /\ HandlerOff
    /\ gen = LibOff
    /\ inl = LibOff
    /\ md = LibOff
    /\ cli = LibOff
    /\ fetch \in {[pc |-> "retrieve", doc |-> d, configured |-> c, hasMore |-> FALSE,
                   uploads |-> <<>>, contentHtml |-> <<>>] :
                     d \in Documents, c \in BOOLEAN}

\* notion.pages.retrieve resolves or rejects
ContentRetrieve ==
    /\ fetch.pc = "retrieve"
    /\ \E storeOk \in BOOLEAN :
          fetch' = [fetch EXCEPT !.pc = IF storeOk THEN "list" ELSE "threw"]
    /\ UNCHANGED <<handlerVars, gen, inl, md, cli>>

\* blocks.children.list({ page_size }) without a cursor: the first page of
\* the children and whether there are more
childrenList(children, pageSize) ==
    [results |-> SubSeq(children, 1,
                        IF Len(children) < pageSize THEN Len(children) ELSE pageSize),
     has_more |-> Len(children) > pageSize]

\* the list call resolves or rejects; generateContentHtml is called with
\* blocks.results
ContentList ==
    /\ fetch.pc = "list"
    /\ \E storeOk \in BOOLEAN :
          IF storeOk
          THEN /\ fetch' = [fetch EXCEPT
                              !.pc = "render",
                              !.hasMore = childrenList(fetch.doc, ContentPageSize).has_more]
               /\ gen' = GenCall(childrenList(fetch.doc, ContentPageSize).results,
                                 ContentOptions)
          ELSE /\ fetch' = [fetch EXCEPT !.pc = "threw"]
               /\ gen' = gen
    /\ UNCHANGED <<handlerVars, inl, md, cli>>

\* the block at i is an image whose URL goes to the uploadImage callback
UploadCalled(g) ==
    /\ g.blocks[g.i].type = "image"
    /\ Len(g.blocks[g.i].url) > 0
    /\ g.opts.uploadImage /\ Len(g.opts.pageId) > 0

\* one iteration of the for loop with uploadImageToSupabase as the callback
ContentBlock ==
    /\ fetch.pc = "render"
    /\ gen.pc = "loop"
    /\ gen.i <= Len(gen.blocks)
    /\ \E course \in IF UploadCalled(gen) THEN UploadCourses ELSE {"none"} :
          /\ gen' = loopBody(gen, uploadImageToSupabase(fetch.configured, course))
          /\ fetch' = IF UploadCalled(gen)
                      THEN [fetch EXCEPT !.uploads =
                              Append(@, [src |-> gen.i, course |-> course,
                                         result |-> uploadImageToSupabase(fetch.configured,
                                                                          course)])]
                      ELSE fetch
    /\ UNCHANGED <<handlerVars, inl, md, cli>>

\* generateContentHtml has resolved: fetchNewsletterContent returns
ContentDone ==
    /\ fetch.pc = "render"
    /\ gen.pc = "returned"
    /\ fetch' = [fetch EXCEPT !.pc = "done", !.contentHtml = gen.html]
    /\ UNCHANGED <<handlerVars, gen, inl, md, cli>>

NextContent ==
    \/ ContentRetrieve
    \/ ContentList
    \/ GenToc
    \/ ContentBlock
    \/ GenReturn
    \/ ContentDone

SpecContent == InitContent /\ [][NextContent]_vars

\* C22: a failed upload (Supabase not configured, download or upload
\* failing or throwing) leaves the original URL in the <img> of its image
\* block, the loop goes on to the following blocks, generateContentHtml
\* never rejects and fetchNewsletterContent never throws because of it, so
\* the handler gets the content and answers without an error for it.
C22_ImageRehostingNonFatal ==
    /\ fetch.pc = "threw" => fetch.uploads = <<>>
    /\ fetch.pc \in {"render", "done"}
          => /\ gen.pc # "rejected"
             /\ \A k \in 1..Len(fetch.uploads) :
                   LET u == fetch.uploads[k]
                       b == gen.blocks[u.src]
                       failed == ~fetch.configured \/ u.course # "ok"
                   IN  /\ gen.i > u.src
                       /\ failed => includes(gen.html, imgTag(b.url, getPlainText(b.caption)))
                       /\ ~failed => includes(gen.html, imgTag(PublicUrl, getPlainText(b.caption)))
    /\ fetch.pc = "done"
          => /\ fetch.contentHtml = gen.html
             /\ \A j \in 1..Len(gen.blocks) :
                   /\ \E e \in 1..Len(gen.out) : gen.out[e].src = j
                   /\ gen.blocks[j].type = "image"
                        => \E k \in 1..Len(fetch.uploads) : fetch.uploads[k].src = j

C22_Witness ==
    /\ fetch.pc = "done"
    /\ fetch.configured
    /\ fetch.doc = << Block("image", <<>>, <<"i", ".", "p", "n", "g">>, <<>>),
                      Block("paragraph", PlainRichText(<<"H", "i">>), <<>>, <<>>) >>
    /\ fetch.uploads = << [src |-> 1, course |-> "upload throws", result |-> <<>>] >>
    /\ fetch.contentHtml = imgTag(<<"i", ".", "p", "n", "g">>, <<>>) \o <<"\n", "<", "p", ">", "H", "i", "<", "/", "p", ">", "\n">>

\* C25 as stated: the block children are read until the store reports no
\* further page, and the body is rendered from all blocks of the document.
C25_AllBlocksRendered ==
    fetch.pc \in {"render", "done"}
        => /\ ~fetch.hasMore
           /\ gen.blocks = fetch.doc
           /\ fetch.pc = "done"
                => \A j \in 1..Len(fetch.doc) :
                      \E e \in 1..Len(gen.out) : gen.out[e].src = j

(***************************************************************************)
(* The command-line sender (send-newsletter.ts): sendNewsletters and       *)
(* sendSingleNewsletter against the pages of the newsletter database       *)
(***************************************************************************)
\* runs of the command-line sender, one after the other
MaxCliRuns == 2

CliPages == <<"n1", "n2">>

CliStatusValues == {"Draft", "Ready", "Sent"}

\* LOOPS_API_KEY and LOOPS_TRANSACTIONAL_ID of the process
CliEnvValues ==
    { [LOOPS_API_KEY |-> "key", LOOPS_TRANSACTIONAL_ID |-> "tmpl"],
      [LOOPS_API_KEY |-> NoVal, LOOPS_TRANSACTIONAL_ID |-> "tmpl"],
      [LOOPS_API_KEY |-> "your-loops-api-key", LOOPS_TRANSACTIONAL_ID |-> "tmpl"],
      [LOOPS_API_KEY |-> "key", LOOPS_TRANSACTIONAL_ID |-> NoVal],
      [LOOPS_API_KEY |-> "key", LOOPS_TRANSACTIONAL_ID |-> "your-transactional-email-id"] }

\* the two early returns of sendViaLoops do not apply
cliLoopsConfigured(e) ==
    /\ Truthy(e.LOOPS_API_KEY) /\ e.LOOPS_API_KEY # "your-loops-api-key"
    /\ Truthy(e.LOOPS_TRANSACTIONAL_ID)
    /\ e.LOOPS_TRANSACTIONAL_ID # "your-transactional-email-id"

\* getEmailRecipients: the hardcoded list
getEmailRecipients == << [email |-> "olivier@lilee.ai", firstName |-> "Olivier"] >>

\* the database query with the filter Status equals 'Ready', in page order
getReadyNewsletters(status) == SelectSeq(CliPages, LAMBDA n : status[n] = "Ready")

NoResult == [success |-> FALSE, sent |-> -1, failed |-> -1]

Result(success, sent, failed) == [success |-> success, sent |-> sent, failed |-> failed]

\* the fields of one run
CliRunStart ==
    [pc |-> "idle", mode |-> "none", target |-> NoVal, read |-> NoVal,
     newsletters |-> <<>>, k |-> 0, recipients |-> <<>>, idx |-> 0,
     sent |-> 0, failed |-> 0,
     calls |-> <<>>,    \* email API calls: page, outcome
     ops |-> <<>>,      \* store calls and returns of sendViaLoops: op, page
     tally |-> <<>>,    \* what sendViaLoops returned: page, sent, failed
     result |-> NoResult]

\* a process about to start: its environment, the statuses of the pages, the
\* number of earlier runs and what the last run left unsent
CliState(e, status, runs, carry) ==
    [f \in DOMAIN CliRunStart \cup {"env", "status", "runs", "carry"} |->
        IF f = "env" THEN e
        ELSE IF f = "status" THEN status
        ELSE IF f = "runs" THEN runs
        ELSE IF f = "carry" THEN carry
        ELSE CliRunStart[f]]

InitCli ==
    /\ HandlerOff
    /\ gen = LibOff
    /\ inl = LibOff
    /\ md = LibOff
    /\ fetch = LibOff
    /\ cli \in {CliState(e, s, 0, {}) : e \in CliEnvValues,
                                        s \in [Range(CliPages) -> CliStatusValues]}

\* the process is started as the batch sender
StartSendNewsletters ==
    /\ cli.pc = "idle"
    /\ cli' = [cli EXCEPT !.pc = "query", !.mode = "batch"]
    /\ UNCHANGED <<handlerVars, gen, inl, md, fetch>>

\* sendSingleNewsletter(pageId) is called
StartSendSingleNewsletter(pageId) ==
    /\ cli.pc = "idle"
    /\ cli' = [cli EXCEPT !.pc = "retrieve", !.mode = "single", !.target = pageId]
    /\ UNCHANGED <<handlerVars, gen, inl, md, fetch>>

\* steps 1 and 2 of sendNewsletters: the Ready pages with their content, then
\* the recipients; a store failure ends the process
BatchQuery ==
    /\ cli.pc = "query"
    /\ \E storeOk \in BOOLEAN :
          cli' = IF ~storeOk
                 THEN [cli EXCEPT !.pc = "crashed", !.ops = Append(@, [op |-> "query", page |-> NoVal])]
                 ELSE IF Len(getReadyNewsletters(cli.status)) = 0
                 THEN [cli EXCEPT !.pc = "done", !.ops = Append(@, [op |-> "query", page |-> NoVal])]
                 ELSE IF Len(getEmailRecipients) = 0
                 THEN [cli EXCEPT !.pc = "done",
                                  !.newsletters = getReadyNewsletters(cli.status),
                                  !.status = [n \in Range(CliPages) |->
                                                IF cli.status[n] = "Ready" THEN "Sent"
                                                ELSE cli.status[n]],
                                  !.ops = Append(@, [op |-> "query", page |-> NoVal])]
                 ELSE [cli EXCEPT !.pc = "dispatch",
                                  !.newsletters = getReadyNewsletters(cli.status),
                                  !.recipients = getEmailRecipients,
                                  !.k = 1,
                                  !.ops = Append(@, [op |-> "query", page |-> NoVal])]
    /\ UNCHANGED <<handlerVars, gen, inl, md, fetch>>

\* sendViaLoops returns its tally for the current newsletter
loopsReturn(c) ==
    [c EXCEPT !.pc = "mark",
              !.tally = Append(@, [page |-> c.newsletters[c.k], sent |-> c.sent,
                                   failed |-> c.failed]),
              !.ops = Append(@, [op |-> "dispatched", page |-> c.newsletters[c.k]])]

\* sendViaLoops is entered for the current newsletter: the configuration
\* checks, then the first recipient
CliDispatch ==
    /\ cli.pc = "dispatch"
    /\ cli' = IF ~cliLoopsConfigured(cli.env)
              THEN loopsReturn([cli EXCEPT !.sent = 0, !.failed = 0])
              ELSE [cli EXCEPT !.pc = "send", !.sent = 0, !.failed = 0, !.idx = 1]
    /\ UNCHANGED <<handlerVars, gen, inl, md, fetch>>

\* the email API call for the recipient at idx completes
CliSendOne(outcome) ==
    /\ cli.pc = "send"
    /\ cli' = [cli EXCEPT !.pc = "pace",
                          !.calls = Append(@, [page |-> cli.newsletters[cli.k],
                                               email |-> cli.recipients[cli.idx].email,
                                               outcome |-> outcome]),
                          !.sent = sentAfter(@, outcome),
                          !.failed = failedAfter(@, outcome)]
    /\ UNCHANGED <<handlerVars, gen, inl, md, fetch>>

\* the 100 ms pause ends: next recipient, or sendViaLoops returns
CliPace ==
    /\ cli.pc = "pace"
    /\ cli' = IF cli.idx = Len(cli.recipients) THEN loopsReturn(cli)
              ELSE [cli EXCEPT !.pc = "send", !.idx = @ + 1]
    /\ UNCHANGED <<handlerVars, gen, inl, md, fetch>>

\* a mark of every dispatched newsletter, whatever the tally
marksAfterDispatch_Always(sent, recipients) == TRUE

\* the condition of step 4
marksAfterDispatch(sent, recipients) == sent > 0 \/ Len(recipients) = 0

\* the loop of step 3 goes to the next newsletter or ends
nextNewsletter(c) ==
    IF c.k = Len(c.newsletters) THEN [c EXCEPT !.pc = "done"]
    ELSE [c EXCEPT !.pc = "dispatch", !.k = @ + 1]

\* markAsSent(page) has resolved
marked(c, page) ==
    [c EXCEPT !.status[page] = "Sent", !.ops = Append(@, [op |-> "markAsSent", page |-> page])]

\* step 4 of sendNewsletters for the current newsletter; a failing status
\* write ends the process
BatchMark ==
    /\ cli.pc = "mark"
    /\ cli.mode = "batch"
    /\ \E storeOk \in BOOLEAN :
          cli' = IF ~marksAfterDispatch(cli.sent, cli.recipients)
                 THEN nextNewsletter(cli)
                 ELSE IF storeOk
                 THEN nextNewsletter(marked(cli, cli.newsletters[cli.k]))
                 ELSE [cli EXCEPT !.pc = "crashed"]
    /\ UNCHANGED <<handlerVars, gen, inl, md, fetch>>

\* what the catch block of sendSingleNewsletter returns
ThrownResult == Result(FALSE, 0, 0)

\* sendSingleNewsletter reads the page and looks at its status
SingleRetrieve ==
    /\ cli.pc = "retrieve"
    /\ \E storeOk \in BOOLEAN :
          cli' = IF ~storeOk
                 THEN [cli EXCEPT !.pc = "done", !.result = ThrownResult,
                                  !.ops = Append(@, [op |-> "retrieve", page |-> cli.target])]
                 ELSE LET c == [cli EXCEPT !.read = cli.status[cli.target],
                                           !.ops = Append(@, [op |-> "retrieve",
                                                              page |-> cli.target])]
                      IN  IF c.read = "Sent"
                          THEN [c EXCEPT !.pc = "done", !.result = Result(TRUE, 0, 0)]
                          ELSE IF c.read # "Ready"
                          THEN [c EXCEPT !.pc = "done", !.result = Result(FALSE, 0, 0)]
                          ELSE [c EXCEPT !.pc = "content"]
    /\ UNCHANGED <<handlerVars, gen, inl, md, fetch>>

\* the blocks are listed and rendered, the recipients fetched
SingleContent ==
    /\ cli.pc = "content"
    /\ \E storeOk \in BOOLEAN :
          cli' = IF ~storeOk
                 THEN [cli EXCEPT !.pc = "done", !.result = ThrownResult,
                                  !.ops = Append(@, [op |-> "blocks", page |-> cli.target])]
                 ELSE LET c == [cli EXCEPT !.ops = Append(@, [op |-> "blocks",
                                                              page |-> cli.target])]
                      IN  IF Len(getEmailRecipients) = 0
                          THEN [marked(c, c.target) EXCEPT !.pc = "done",
                                                           !.result = Result(TRUE, 0, 0)]
                          ELSE [c EXCEPT !.pc = "dispatch", !.newsletters = <<c.target>>,
                                         !.k = 1, !.recipients = getEmailRecipients]
    /\ UNCHANGED <<handlerVars, gen, inl, md, fetch>>

\* a status write only after at least one successful send
SingleMark_IfAnySent ==
    /\ cli.pc = "mark"
    /\ cli.mode = "single"
    /\ \E storeOk \in BOOLEAN :
          cli' = IF cli.sent = 0
                 THEN [cli EXCEPT !.pc = "done", !.result = Result(TRUE, cli.sent, cli.failed)]
                 ELSE IF storeOk
                 THEN [marked(cli, cli.target) EXCEPT
                          !.pc = "done", !.result = Result(TRUE, cli.sent, cli.failed)]
                 ELSE [cli EXCEPT !.pc = "done", !.result = ThrownResult]
    /\ UNCHANGED <<handlerVars, gen, inl, md, fetch>>

\* sendViaLoops has returned: markAsSent, then the result; a failing status
\* write goes to the catch block
SingleMark ==
    /\ cli.pc = "mark"
    /\ cli.mode = "single"
    /\ \E storeOk \in BOOLEAN :
          cli' = IF storeOk
                 THEN [marked(cli, cli.target) EXCEPT
                          !.pc = "done", !.result = Result(TRUE, cli.sent, cli.failed)]
                 ELSE [cli EXCEPT !.pc = "done", !.result = ThrownResult]
    /\ UNCHANGED <<handlerVars, gen, inl, md, fetch>>

\* the newsletters of the ended run whose dispatch returned sent = 0
unsentOf(c) ==
    {c.tally[j].page : j \in {i \in 1..Len(c.tally) : c.tally[i].sent = 0}}

\* the process has ended; it is started again later
CliExit ==
    /\ cli.pc \in {"done", "crashed"}
    /\ cli.runs + 1 < MaxCliRuns
    /\ cli' = CliState(cli.env, cli.status, cli.runs + 1,
                       IF cli.mode = "batch" THEN unsentOf(cli) ELSE {})
    /\ UNCHANGED <<handlerVars, gen, inl, md, fetch>>

NextCli ==
    \/ StartSendNewsletters
    \/ \E pageId \in Range(CliPages) : StartSendSingleNewsletter(pageId)
    \/ BatchQuery
    \/ CliDispatch
    \/ \E outcome \in CallOutcomes : CliSendOne(outcome)
    \/ CliPace
    \/ BatchMark
    \/ SingleRetrieve
    \/ SingleContent
    \/ SingleMark
    \/ CliExit

SpecCli == InitCli /\ [][NextCli]_vars

\* position of page n among the newsletters of the run (0: not selected)
positionOf(c, n) ==
    IF \E i \in 1..Len(c.newsletters) : c.newsletters[i] = n
    THEN CHOOSE i \in 1..Len(c.newsletters) : c.newsletters[i] = n
    ELSE 0

\* C29: in a run of sendNewsletters a selected newsletter is marked "Sent"
\* only after its own sendViaLoops returned with sent > 0; once the run has
\* gone past it, it is marked exactly if sent > 0, and with sent = 0 (all
\* sends failed, or the email API not configured, which issues no call) its
\* status is still "Ready"; calls, returns and marks follow the order of the
\* newsletters; a newsletter left with sent = 0 is selected by the next run.
C29_BatchMarksIffSent ==
    cli.mode = "batch"
      => /\ \A i \in 1..Len(cli.newsletters) :
               LET n == cli.newsletters[i]
                   marks == {a \in 1..Len(cli.ops) :
                               cli.ops[a] = [op |-> "markAsSent", page |-> n]}
                   returns == {a \in 1..Len(cli.ops) :
                                 cli.ops[a] = [op |-> "dispatched", page |-> n]}
                   tallies == {j \in 1..Len(cli.tally) : cli.tally[j].page = n}
                   past == i < cli.k \/ cli.pc = "done"
               IN  /\ Cardinality(tallies) <= 1 /\ Cardinality(marks) <= 1
                   /\ \A a \in marks :
                         /\ \E b \in returns : b < a
                         /\ \E j \in tallies : cli.tally[j].sent > 0
                         /\ cli.status[n] = "Sent"
                   /\ past => /\ tallies # {}
                              /\ \A j \in tallies :
                                    /\ cli.tally[j].sent > 0 <=> marks # {}
                                    /\ cli.tally[j].sent = 0 => cli.status[n] = "Ready"
                   /\ ~cliLoopsConfigured(cli.env)
                         => /\ \A j \in tallies : cli.tally[j].sent = 0
                            /\ cli.calls = <<>>
         /\ \A a \in 1..Len(cli.calls) : \A b \in a..Len(cli.calls) :
               positionOf(cli, cli.calls[a].page) <= positionOf(cli, cli.calls[b].page)
         /\ \A a \in 1..Len(cli.ops) : \A b \in a..Len(cli.ops) :
               (cli.ops[a].page # NoVal /\ cli.ops[b].page # NoVal)
                  => positionOf(cli, cli.ops[a].page) <= positionOf(cli, cli.ops[b].page)
         /\ cli.pc \in {"dispatch", "send", "pace", "mark", "done"}
               => \A n \in cli.carry : positionOf(cli, n) > 0

C29_Witness ==
    /\ cli.mode = "batch"
    /\ cli.pc = "done"
    /\ cli.runs = 1
    /\ cli.carry = {"n1"}
    /\ cli.newsletters = <<"n1">>
    /\ cli.tally = << [page |-> "n1", sent |-> 1, failed |-> 0] >>
    /\ cli.status = [n \in Range(CliPages) |-> "Sent"]

\* C30: sendSingleNewsletter issues email calls only after reading the
\* status "Ready"; read "Sent" gives {success, 0, 0} and any other status
\* {no success, 0, 0}, both without email call and without status write;
\* after a dispatch that returned, the page is marked "Sent" and the result
\* is {success, sent, failed} whatever the counts, unless the status write
\* throws; every throw gives {no success, 0, 0}.
C30_SingleSendsOnlyWhenReady ==
    cli.mode = "single"
      => LET writes == {a \in 1..Len(cli.ops) : cli.ops[a].op = "markAsSent"}
             threw == /\ cli.pc = "done"
                      /\ \/ cli.read = NoVal
                         \/ cli.read = "Ready" /\ writes = {}
         IN  /\ cli.calls # <<>> => cli.read = "Ready"
             /\ cli.tally # <<>> => cli.read = "Ready"
             /\ writes # {} => cli.read = "Ready" /\ cli.tally # <<>>
             /\ cli.pc = "done"
                  => /\ cli.result # NoResult
                     /\ cli.read = "Sent"
                          => cli.result = Result(TRUE, 0, 0) /\ cli.calls = <<>>
                     /\ cli.read \in CliStatusValues \ {"Sent", "Ready"}
                          => /\ cli.result = Result(FALSE, 0, 0)
                             /\ cli.calls = <<>> /\ writes = {}
                     /\ (cli.read = "Ready" /\ writes # {})
                          => /\ cli.status[cli.target] = "Sent"
                             /\ cli.result = Result(TRUE, cli.tally[1].sent,
                                                    cli.tally[1].failed)
                     /\ threw => cli.result = Result(FALSE, 0, 0)
                     /\ (cli.tally # <<>> /\ cli.result.success) => writes # {}

C30_Witness ==
    /\ cli.mode = "single"
    /\ cli.pc = "done"
    /\ cli.read = "Ready"
    /\ cli.calls = << [page |-> "n1", email |-> "olivier@lilee.ai", outcome |-> "non2xx"] >>
    /\ cli.status["n1"] = "Sent"
    /\ cli.result = Result(TRUE, 0, 1)

====
